---- MODULE Spec2Model ----
(***************************************************************************)
(* Model of joy2-rs: the mapping executor (src/src/mapping/executor.rs),   *)
(* the configuration validator (src/src/mapping/config.rs) and the         *)
(* executor loop of the manager (src/src/manager.rs).                      *)
(*                                                                         *)
(* Conventions.                                                            *)
(*  - f32 values (stick axes, deadzones, sensitivities, gyro rates) are    *)
(*    fixed-point integers in hundredths: 0.15 is 15, 1.0 is 100.           *)
(*  - A Rust String is a sequence of tokens; the tokens "+" and " " are    *)
(*    the characters split('+') and trim() look at, any other token is a   *)
(*    run of other characters.  "shift+w" is <<"shift", "+", "w">>.        *)
(*  - Option<T> is a sequence of length 0 (None) or 1 (Some).              *)
(*  - HashMap<K,V> is a function whose DOMAIN is the set of present keys.  *)
(***************************************************************************)
EXTENDS Integers, Sequences, FiniteSets, TLC

\* ------------------------------------------------------------------ bounds

\* Largest Button-source reference count a key may reach before further
\* claiming events are cut off (the count is a u32 in the code).
MaxRefCount == 2

\* Number of executor events in a recorded scenario (SpecTrace).
MaxEvents == 4

\* ------------------------------------------------------- program constants

\* Fixed-point scale: the integer that stands for the f32 1.0.
FP == 100

\* `let threshold = 0.5;` of handle_directional_keys.
DirThreshold == 50

\* The literal 10.0 of the Mouse branch of apply_stick_movement.
MouseGain == 10

\* default_deadzone() of config.rs.
DefaultDeadzone == 15

\* ------------------------------------------------------------------- enums

ButtonType ==
  {"A", "B", "X", "Y", "L", "R", "ZL", "ZR", "Plus", "Minus", "Home",
   "Capture", "Chat", "LeftStickClick", "RightStickClick", "DpadUp",
   "DpadDown", "DpadLeft", "DpadRight", "SLL", "SRL", "SLR", "SRR"}

StickType == {"Left", "Right"}

ControllerSide == {"Left", "Right"}

MetaActionTypes ==
  {"CycleProfiles", "CycleSensitivity", "ToggleGyroMouseL", "ToggleGyroMouseR"}

\* ------------------------------------------------------------ Option / map

None == <<>>

Some(v) == <<v>>

IsSome(o) == Len(o) > 0

Unwrap(o) == o[1]

EmptyMap == [b \in {} |-> <<>>]

\* HashMap::get
MapGet(map, k) == IF k \in DOMAIN map THEN Some(map[k]) ELSE None

\* HashMap insert / overwrite of one entry
MapPut(map, k, v) == [x \in DOMAIN map \cup {k} |-> IF x = k THEN v ELSE map[x]]

\* HashMap::remove
MapDel(map, k) == [x \in DOMAIN map \ {k} |-> map[x]]

\* ----------------------------------------------------------------- strings

RECURSIVE SplitPlus(_)
\* str::split('+'): the pieces between the "+" tokens, empty pieces included.
SplitPlus(s) ==
  IF \A i \in 1..Len(s) : s[i] # "+"
    THEN <<s>>
    ELSE LET i == CHOOSE j \in 1..Len(s) :
                    s[j] = "+" /\ \A h \in 1..(j - 1) : s[h] # "+"
         IN <<SubSeq(s, 1, i - 1)>> \o SplitPlus(SubSeq(s, i + 1, Len(s)))

RECURSIVE Trim(_)
\* str::trim(): leading and trailing whitespace removed.
Trim(s) ==
  IF s = <<>> THEN s
  ELSE IF Head(s) = " " THEN Trim(Tail(s))
  ELSE IF s[Len(s)] = " " THEN Trim(SubSeq(s, 1, Len(s) - 1))
  ELSE s

\* key.split('+').map(|s| s.trim()).filter(|s| !s.is_empty()).collect()
SplitKey(s) ==
  LET pieces == SplitPlus(s)
      trimmed == [i \in 1..Len(pieces) |-> Trim(pieces[i])]
      NonEmpty(p) == p # <<>>
  IN SelectSeq(trimmed, NonEmpty)

\* ----------------------------------------------------------------- actions

ActNone == [type |-> "None", key |-> None, button |-> "-", dx |-> 0, dy |-> 0]

KeyHold(k) == [type |-> "KeyHold", key |-> Some(k), button |-> "-", dx |-> 0, dy |-> 0]

KeyHoldNone == [type |-> "KeyHold", key |-> None, button |-> "-", dx |-> 0, dy |-> 0]

MouseMove(dx, dy) == [type |-> "MouseMove", key |-> None, button |-> "-", dx |-> dx, dy |-> dy]

MouseClick(b) == [type |-> "MouseClick", key |-> None, button |-> b, dx |-> 0, dy |-> 0]

CycleProfiles == [type |-> "CycleProfiles", key |-> None, button |-> "-", dx |-> 0, dy |-> 0]

CycleSensitivity == [type |-> "CycleSensitivity", key |-> None, button |-> "-", dx |-> 0, dy |-> 0]

ToggleGyroMouseL == [type |-> "ToggleGyroMouseL", key |-> None, button |-> "-", dx |-> 0, dy |-> 0]

ToggleGyroMouseR == [type |-> "ToggleGyroMouseR", key |-> None, button |-> "-", dx |-> 0, dy |-> 0]

\* ------------------------------------------------------------------ config

GyroMappingDefault ==
  [enabled |-> FALSE, sensitivity_x |-> FP, sensitivity_y |-> FP,
   invert_x |-> FALSE, invert_y |-> FALSE]

GyroSettingsDefault == [left |-> GyroMappingDefault, right |-> GyroMappingDefault]

DirectionalKeys(up, down, left, right) ==
  [up |-> up, down |-> down, left |-> left, right |-> right]

StickMapping(mode, sensitivity, directions) ==
  [mode |-> mode, sensitivity |-> sensitivity, directions |-> directions]

Profile(name, buttons, left, right, ovl, ovr) ==
  [name |-> name, buttons |-> buttons,
   sticks |-> [left |-> left, right |-> right],
   gyro |-> GyroSettingsDefault,
   gyro_mouse_overrides_left |-> ovl, gyro_mouse_overrides_right |-> ovr]

Settings(dzl, dzr, default_profile, factors) ==
  [left_stick_deadzone |-> dzl, right_stick_deadzone |-> dzr,
   default_profile |-> default_profile, sensitivity_factor |-> factors]

SettingsDefault == Settings(DefaultDeadzone, DefaultDeadzone, "base", <<100, 200, 300>>)

Config(settings, profiles) == [settings |-> settings, profiles |-> profiles]

\* ---------------------------------------------------------------- validate

\* Names parse_allowed_key accepts, as far as the configurations of this
\* model use them (the full list is the match of parse_allowed_key).
AllowedKeyNames ==
  {"a", "b", "d", "l", "q", "s", "w", "x", "y", "shift", "ctrl"}

\* validate_single_key (cfg(windows)): parse_allowed_key(key) must succeed.
validate_single_key(key) == Len(Trim(key)) = 1 /\ Trim(key)[1] \in AllowedKeyNames

\* validate_key: every non-empty trimmed part of a combo, or the key itself.
validate_key(key) ==
  IF \E i \in 1..Len(key) : key[i] = "+"
    THEN LET parts == SplitPlus(key)
         IN \A i \in 1..Len(parts) :
              Trim(parts[i]) # <<>> => validate_single_key(Trim(parts[i]))
    ELSE validate_single_key(key)

\* validate_action: only KeyHold / None carry a key to check.
validate_action(action) ==
  IF action.type \in {"KeyHold", "None"} /\ IsSome(action.key)
    THEN validate_key(Unwrap(action.key))
    ELSE TRUE

ValidateActionMap(map) ==
  \A b \in DOMAIN map : \A i \in 1..Len(map[b]) : validate_action(map[b][i])

ValidateStickKeys(stick) ==
  (IsSome(stick) /\ IsSome(Unwrap(stick).directions)) =>
     LET dirs == Unwrap(Unwrap(stick).directions)
     IN /\ validate_key(dirs.up)
        /\ validate_key(dirs.down)
        /\ validate_key(dirs.left)
        /\ validate_key(dirs.right)

\* validate_profile: TRUE iff it returns Ok(()).
validate_profile(profile) ==
  /\ ValidateActionMap(profile.buttons)
  /\ ValidateActionMap(profile.gyro_mouse_overrides_left)
  /\ ValidateActionMap(profile.gyro_mouse_overrides_right)
  /\ ValidateStickKeys(profile.sticks.left)
  /\ ValidateStickKeys(profile.sticks.right)

\* The buttons whose action list in profile.buttons contains an action of
\* type `meta`.
ButtonsBoundTo(profile, meta) ==
  {b \in DOMAIN profile.buttons :
     \E i \in 1..Len(profile.buttons[b]) : profile.buttons[b][i].type = meta}

\* The first loop reading only the first profile: a switching button that
\* only a later profile binds is never collected.
CollectedButtons_FirstProfile(cfg, meta) ==
  ButtonsBoundTo(cfg.profiles[1], meta)

\* First loop of validate_profile_switching_buttons: the buttons that carry
\* `meta` in the buttons map of any profile.
CollectedButtons(cfg, meta) ==
  UNION {ButtonsBoundTo(cfg.profiles[i], meta) : i \in 1..Len(cfg.profiles)}

\* has_cycle / has_toggle of the second loop, for one profile and one button.
HasMeta(profile, button, meta) ==
  /\ button \in DOMAIN profile.buttons
  /\ \E i \in 1..Len(profile.buttons[button]) : profile.buttons[button][i].type = meta

\* Second loop, for one profile: the meta action whose check fails first.
ProfileSwitchingError(cfg, profile) ==
  IF \E b \in CollectedButtons(cfg, "CycleProfiles") :
       ~HasMeta(profile, b, "CycleProfiles")
    THEN "missing CycleProfiles"
  ELSE IF \E b \in CollectedButtons(cfg, "ToggleGyroMouseL") :
       ~HasMeta(profile, b, "ToggleGyroMouseL")
    THEN "missing ToggleGyroMouseL"
  ELSE IF \E b \in CollectedButtons(cfg, "ToggleGyroMouseR") :
       ~HasMeta(profile, b, "ToggleGyroMouseR")
    THEN "missing ToggleGyroMouseR"
  ELSE "Ok"

\* validate_profile_switching_buttons: "Ok" or the error of the first
\* profile (in order) that lacks a collected button.
validate_profile_switching_buttons(cfg) ==
  IF Len(cfg.profiles) < 2 THEN "Ok"
  ELSE LET bad == {i \in 1..Len(cfg.profiles) :
                     ProfileSwitchingError(cfg, cfg.profiles[i]) # "Ok"}
       IN IF bad = {} THEN "Ok"
          ELSE LET first == CHOOSE i \in bad : \A j \in bad : i <= j
               IN ProfileSwitchingError(cfg, cfg.profiles[first])

\* f32::NAN, which toml::from_str yields for the value `nan`.  It stands
\* outside every number the settings are compared with.
NaN == -999999

\* f32's PartialOrd: no ordering when an operand is NaN, so that every
\* comparison with NaN (<, >, <=) is false.
partial_cmp(x, y) ==
  IF x = NaN \/ y = NaN THEN None
  ELSE Some(IF x < y THEN "Less" ELSE IF x = y THEN "Equal" ELSE "Greater")

\* Config::validate: "Ok" or the error it returns.
validate(cfg) ==
  LET lt(x, y) == partial_cmp(x, y) = Some("Less")
      gt(x, y) == partial_cmp(x, y) = Some("Greater")
      le(x, y) == partial_cmp(x, y) \in {Some("Less"), Some("Equal")}
  IN
  IF lt(cfg.settings.left_stick_deadzone, 0) \/ gt(cfg.settings.left_stick_deadzone, FP)
    THEN "left_stick_deadzone must be between 0.0 and 1.0"
  ELSE IF lt(cfg.settings.right_stick_deadzone, 0) \/ gt(cfg.settings.right_stick_deadzone, FP)
    THEN "right_stick_deadzone must be between 0.0 and 1.0"
  ELSE IF \E i \in 1..Len(cfg.settings.sensitivity_factor) :
            le(cfg.settings.sensitivity_factor[i], 0)
    THEN "sensitivity_factor values must be positive"
  ELSE IF cfg.profiles = <<>> THEN "At least one profile is required"
  ELSE IF ~\E i \in 1..Len(cfg.profiles) : cfg.profiles[i].name = cfg.settings.default_profile
    THEN "Default profile not found"
  ELSE IF \E i \in 1..Len(cfg.profiles) : ~validate_profile(cfg.profiles[i]) THEN "Invalid key"
  ELSE validate_profile_switching_buttons(cfg)

\* ------------------------------------------------------------------- state

VARIABLES
  config,                    \* MappingExecutor.config (fixed at construction)
  held_state,                \* HeldState: buttons, key_sources, keys_down
  current_profile_index,     \* 0-based, as in the code
  current_sensitivity_index, \* 0-based
  gyro_mouse_state,          \* GyroMouseState: left_enabled, right_enabled
  left_stick,                \* StickState of the left stick
  right_stick,               \* StickState of the right stick
  pc,                        \* executor loop: "recv", "tickLeft" or "tickRight"
  lastEvent,                 \* the event or tick the last step processed
  calls,                     \* backend calls the last step made, in order
  executed,                  \* execute_action calls of the last step, in order
  physDown,                  \* buttons pressed and not yet released (events)
  kbAllOk,                   \* no keyboard backend call has failed so far
  kbLog,                     \* SpecTrace: every keyboard call so far
  evLog,                     \* SpecTrace: every channel event so far
  nEvents,                   \* SpecTrace: loop iterations started so far
  loopLog,                   \* SpecTrace: each step's event, backend calls
                             \* and execute_action calls
  vresult,                   \* SpecValidate: what validate() returned
  running,                   \* JoyConManager.running (AtomicBool)
  connected_macs,            \* JoyConManager.connected_macs (under its mutex)
  event_channel,             \* bounded event channel: events in flight
  peripheral_channel,        \* bounded peripheral channel: tuples in flight
  scanner,                   \* scanner thread: position and advert in hand
  controller,                \* controller threads, by side
  executor_thread,           \* executor thread's position (manager view)
  connection,                \* a JoyConConnection: state, handles, BLE log
  joy,                       \* a Joy2L / Joy2R snapshot and its last report
  session,                   \* controller_loop's locals: previous buttons,
                             \* stick and gyro, events of the last notification
  threads                    \* SpecRestart: every thread start() has spawned

vars ==
  <<config, held_state, current_profile_index, current_sensitivity_index,
    gyro_mouse_state, left_stick, right_stick, pc, lastEvent, calls, executed,
    physDown, kbAllOk, kbLog, evLog, nEvents, loopLog, vresult,
    running, connected_macs, event_channel, peripheral_channel, scanner,
    controller, executor_thread, connection, joy, session, threads>>

\* The variables of the manager's threads and of the connection.
mgrVars ==
  <<running, connected_macs, event_channel, peripheral_channel, scanner,
    controller, executor_thread>>

\* The variables of the executor and of validate().
execVars ==
  <<config, held_state, current_profile_index, current_sensitivity_index,
    gyro_mouse_state, left_stick, right_stick, pc, lastEvent, calls, executed,
    physDown, kbAllOk, kbLog, evLog, nEvents, loopLog, vresult>>

\* The executor's mutable fields as one record, threaded through the
\* operators below; `calls`, `executed` and `drained` collect what
\* a handler did.
Machine ==
  [buttons |-> held_state.buttons,
   key_sources |-> held_state.key_sources,
   keys_down |-> held_state.keys_down,
   current_profile_index |-> current_profile_index,
   current_sensitivity_index |-> current_sensitivity_index,
   gyro_mouse_state |-> gyro_mouse_state,
   left_stick |-> left_stick,
   right_stick |-> right_stick,
   calls |-> <<>>, executed |-> <<>>, drained |-> {}]

\* ---------------------------------------------------------------- HeldState

SourceCountsDefault == [button |-> 0, stick |-> 0]

\* SourceCounts::total.  The counts are u32; WithinRefBound keeps them far
\* below the width, so the sum never wraps.
total(entry) == entry.button + entry.stick

\* u32::saturating_add(1); the saturation point is out of the model's reach.
saturating_inc(n) == n + 1

\* keyboard.key_down / key_up as seen by HeldState: the call is logged with
\* its outcome; env.ok is whether the backend calls of this step succeed.
KbCall(op, key, env) == IF env.ok THEN <<op, key>> ELSE <<op, key, "Err">>

\* press_key that sends key_down on every new claim instead of only on the
\* first one (no test of the total before the claim).
press_key_EveryClaim(m, key, source, env) ==
  IF key = <<>> THEN m
  ELSE
    LET entry == IF key \in DOMAIN m.key_sources
                   THEN m.key_sources[key] ELSE SourceCountsDefault
        inserted == MapPut(m.key_sources, key, entry)
    IN IF source = "Stick" /\ entry.stick > 0
         THEN [m EXCEPT !.key_sources = inserted]
         ELSE
           LET entry2 == IF source = "Button"
                           THEN [entry EXCEPT !.button = saturating_inc(@)]
                           ELSE [entry EXCEPT !.stick = 1]
               m2 == [m EXCEPT !.key_sources = MapPut(m.key_sources, key, entry2)]
           IN [m2 EXCEPT
                 !.calls = Append(@, KbCall("key_down", key, env)),
                 !.keys_down = IF env.ok THEN @ \cup {key} ELSE @]

\* HeldState::press_key
press_key(m, key, source, env) ==
  IF key = <<>> THEN m
  ELSE
    LET entry == IF key \in DOMAIN m.key_sources
                   THEN m.key_sources[key] ELSE SourceCountsDefault
        before == total(entry)
        \* or_insert_with: the entry exists from here on
        inserted == MapPut(m.key_sources, key, entry)
    IN IF source = "Stick" /\ entry.stick > 0
         THEN [m EXCEPT !.key_sources = inserted]
         ELSE
           LET entry2 == IF source = "Button"
                           THEN [entry EXCEPT !.button = saturating_inc(@)]
                           ELSE [entry EXCEPT !.stick = 1]
               m2 == [m EXCEPT !.key_sources = MapPut(m.key_sources, key, entry2)]
           IN IF before = 0
                THEN [m2 EXCEPT
                        !.calls = Append(@, KbCall("key_down", key, env)),
                        !.keys_down = IF env.ok THEN @ \cup {key} ELSE @]
                ELSE m2

\* release_key with the last-claimant test on the releasing source's own
\* count instead of the total: key_up although the other source still claims.
release_key_OwnCount(m, key, source, env) ==
  IF key = <<>> THEN m
  ELSE IF key \notin DOMAIN m.key_sources THEN m
  ELSE
    LET entry == m.key_sources[key]
    IN IF source = "Button" /\ entry.button = 0 THEN m
       ELSE IF source = "Stick" /\ entry.stick = 0 THEN m
       ELSE
         LET entry2 == IF source = "Button"
                         THEN [entry EXCEPT !.button = @ - 1]
                         ELSE [entry EXCEPT !.stick = 0]
             own == IF source = "Button" THEN entry2.button ELSE entry2.stick
         IN IF own = 0
              THEN [m EXCEPT
                      !.calls = IF key \in m.keys_down
                                  THEN Append(@, KbCall("key_up", key, env))
                                  ELSE @,
                      !.keys_down = @ \ {key},
                      !.key_sources = IF total(entry2) = 0
                                        THEN MapDel(@, key)
                                        ELSE MapPut(@, key, entry2)]
              ELSE [m EXCEPT !.key_sources = MapPut(@, key, entry2)]

\* HeldState::release_key
release_key(m, key, source, env) ==
  IF key = <<>> THEN m
  ELSE IF key \notin DOMAIN m.key_sources THEN m
  ELSE
    LET entry == m.key_sources[key]
    IN IF source = "Button" /\ entry.button = 0 THEN m
       ELSE IF source = "Stick" /\ entry.stick = 0 THEN m
       ELSE
         LET entry2 == IF source = "Button"
                         THEN [entry EXCEPT !.button = @ - 1]
                         ELSE [entry EXCEPT !.stick = 0]
         IN IF total(entry2) = 0
              THEN [m EXCEPT
                      !.calls = IF key \in m.keys_down
                                  THEN Append(@, KbCall("key_up", key, env))
                                  ELSE @,
                      !.keys_down = @ \ {key},
                      !.key_sources = MapDel(@, key)]
              ELSE [m EXCEPT !.key_sources = MapPut(@, key, entry2)]

\* The key_up calls of clear_all: keys_down drained in the order env.ord
\* (HashSet::drain yields the keys in an unspecified order).
DrainCalls(keys, env) ==
  LET NotDown(k) == k \in keys
      inOrder == SelectSeq(env.ord, NotDown)
  IN [i \in 1..Len(inOrder) |-> KbCall("key_up", inOrder[i], env)]

\* clear_all that forgets the keys but not the pressed buttons: a button
\* still held across the clear is not seen as a fresh press afterwards.
clear_all_KeepButtons(m, env) ==
  [m EXCEPT
     !.calls = @ \o DrainCalls(m.keys_down, env),
     !.drained = @ \cup m.keys_down,
     !.keys_down = {},
     !.key_sources = EmptyMap]

\* clear_all that forgets the held keys without sending key_up for them.
clear_all_NoKeyUp(m, env) ==
  [m EXCEPT
     !.drained = @ \cup m.keys_down,
     !.keys_down = {},
     !.key_sources = EmptyMap,
     !.buttons = {}]

\* HeldState::clear_all
clear_all(m, env) ==
  [m EXCEPT
     !.calls = @ \o DrainCalls(m.keys_down, env),
     !.drained = @ \cup m.keys_down,
     !.keys_down = {},
     !.key_sources = EmptyMap,
     !.buttons = {}]

\* ----------------------------------------------------------- MappingExecutor

\* MappingExecutor::current_profile
current_profile(m) ==
  IF m.current_profile_index + 1 \in 1..Len(config.profiles)
    THEN Some(config.profiles[m.current_profile_index + 1])
    ELSE None

\* MappingExecutor::button_to_side
button_to_side(button) ==
  IF button \in {"A", "B", "X", "Y", "R", "ZR", "Plus", "Home",
                 "RightStickClick", "SLR", "SRR", "Chat"}
    THEN "Right"
    ELSE "Left"

GyroActive(m, side) ==
  IF side = "Left" THEN m.gyro_mouse_state.left_enabled
                   ELSE m.gyro_mouse_state.right_enabled

OverridesOf(profile, side) ==
  IF side = "Left" THEN profile.gyro_mouse_overrides_left
                   ELSE profile.gyro_mouse_overrides_right

\* get_button_actions consulting the gyro-mouse flag of the opposite side.
get_button_actions_OtherSide(m, button, side) ==
  IF ~IsSome(current_profile(m)) THEN None
  ELSE
    LET profile == Unwrap(current_profile(m))
        overrides == OverridesOf(profile, side)
        other == IF side = "Left" THEN "Right" ELSE "Left"
    IN IF GyroActive(m, other) /\ button \in DOMAIN overrides
         THEN Some(overrides[button])
         ELSE MapGet(profile.buttons, button)

\* MappingExecutor::get_button_actions
get_button_actions(m, button, side) ==
  IF ~IsSome(current_profile(m)) THEN None
  ELSE
    LET profile == Unwrap(current_profile(m))
        overrides == OverridesOf(profile, side)
    IN IF GyroActive(m, side) /\ button \in DOMAIN overrides
         THEN Some(overrides[button])
         ELSE MapGet(profile.buttons, button)

\* MappingExecutor::get_sensitivity_factor
get_sensitivity_factor(m) ==
  IF m.current_sensitivity_index + 1 \in 1..Len(config.settings.sensitivity_factor)
    THEN config.settings.sensitivity_factor[m.current_sensitivity_index + 1]
    ELSE FP

\* MappingExecutor::release_all_held_keys
release_all_held_keys(m, env) == clear_all(m, env)

\* MappingExecutor::cycle_profiles
cycle_profiles(m, env) ==
  IF config.profiles = <<>> THEN m
  ELSE release_all_held_keys(
         [m EXCEPT !.current_profile_index = (@ + 1) % Len(config.profiles)], env)

\* MappingExecutor::cycle_sensitivity
cycle_sensitivity(m) ==
  IF config.settings.sensitivity_factor = <<>> THEN m
  ELSE [m EXCEPT !.current_sensitivity_index =
                    (@ + 1) % Len(config.settings.sensitivity_factor)]

\* MappingExecutor::toggle_gyro_mouse
toggle_gyro_mouse(m, side) ==
  IF side = "Left"
    THEN [m EXCEPT !.gyro_mouse_state.left_enabled = ~@]
    ELSE [m EXCEPT !.gyro_mouse_state.right_enabled = ~@]

RECURSIVE PressKeys(_, _, _, _, _)
\* for k in &keys { press_key(k, source) }, from index i on
PressKeys(m, keys, i, source, env) ==
  IF i > Len(keys) THEN m
  ELSE PressKeys(press_key(m, keys[i], source, env), keys, i + 1, source, env)

RECURSIVE ReleaseKeysRev(_, _, _, _, _)
\* for k in keys.iter().rev() { release_key(k, source) }, from index i down
ReleaseKeysRev(m, keys, i, source, env) ==
  IF i < 1 THEN m
  ELSE ReleaseKeysRev(release_key(m, keys[i], source, env), keys, i - 1, source, env)

\* The effect of MappingExecutor::execute_action on the executor.
ExecuteEffect(m, action, pressed, side, env) ==
  CASE action.type = "None" -> m
    [] action.type = "KeyHold" ->
         IF ~IsSome(action.key) THEN m
         ELSE IF Unwrap(action.key) = <<>> THEN m
         ELSE LET keys == SplitKey(Unwrap(action.key))
              IN IF pressed
                   THEN PressKeys(m, keys, 1, "Button", env)
                   ELSE ReleaseKeysRev(m, keys, Len(keys), "Button", env)
    [] action.type = "MouseMove" ->
         IF pressed
           THEN [m EXCEPT !.calls = Append(@, <<"move_relative", action.dx, action.dy>>)]
           ELSE m
    [] action.type = "MouseClick" ->
         IF pressed
           THEN [m EXCEPT !.calls = Append(@, <<"button_down", action.button>>)]
           ELSE [m EXCEPT !.calls = Append(@, <<"button_up", action.button>>)]
    [] action.type = "CycleProfiles" ->
         IF pressed THEN cycle_profiles(m, env) ELSE m
    [] action.type = "CycleSensitivity" ->
         IF pressed THEN cycle_sensitivity(m) ELSE m
    [] action.type = "ToggleGyroMouseL" ->
         IF pressed THEN toggle_gyro_mouse(m, "Left") ELSE m
    [] action.type = "ToggleGyroMouseR" ->
         IF pressed THEN toggle_gyro_mouse(m, "Right") ELSE m

\* MappingExecutor::execute_action; the call itself is recorded in `executed`.
execute_action(m, action, pressed, side, env) ==
  ExecuteEffect([m EXCEPT !.executed = Append(@, <<action, pressed>>)],
                action, pressed, side, env)

RECURSIVE PressActions(_, _, _, _, _, _)
\* The `for action in actions` loop of on_button_pressed, from index i on.
PressActions(m, actions, i, was_already_pressed, side, env) ==
  IF i > Len(actions) THEN m
  ELSE
    LET action == actions[i]
        m2 == IF action.type \in MetaActionTypes \cup {"KeyHold"}
                THEN IF ~was_already_pressed
                       THEN execute_action(m, action, TRUE, side, env)
                       ELSE m
                ELSE execute_action(m, action, TRUE, side, env)
    IN PressActions(m2, actions, i + 1, was_already_pressed, side, env)

\* MappingExecutor::on_button_pressed
on_button_pressed(m, button, env) ==
  LET was_already_pressed == button \in m.buttons
      m1 == [m EXCEPT !.buttons = @ \cup {button}]
      side == button_to_side(button)
      actions == get_button_actions(m1, button, side)
  IN IF IsSome(actions)
       THEN PressActions(m1, Unwrap(actions), 1, was_already_pressed, side, env)
       ELSE m1

RECURSIVE ReleaseActions(_, _, _, _, _)
\* The `for action in actions` loop of on_button_released, from index i on.
ReleaseActions(m, actions, i, side, env) ==
  IF i > Len(actions) THEN m
  ELSE ReleaseActions(execute_action(m, actions[i], FALSE, side, env),
                      actions, i + 1, side, env)

\* MappingExecutor::on_button_released
on_button_released(m, button, env) ==
  IF button \notin m.buttons THEN m
  ELSE
    LET m1 == [m EXCEPT !.buttons = @ \ {button}]
        side == button_to_side(button)
        actions == get_button_actions(m1, button, side)
    IN IF IsSome(actions)
         THEN ReleaseActions(m1, Unwrap(actions), 1, side, env)
         ELSE m1

\* MappingExecutor::set_stick_key_state
set_stick_key_state(m, key, pressed, env) ==
  IF key = <<>> THEN m
  ELSE LET keys == SplitKey(key)
       IN IF pressed
            THEN PressKeys(m, keys, 1, "Stick", env)
            ELSE ReleaseKeysRev(m, keys, Len(keys), "Stick", env)

\* handle_directional_keys with the threshold included in the pressed range.
handle_directional_keys_Inclusive(m, x, y, directions, env) ==
  LET should_press_up == y <= -DirThreshold
      should_press_down == y >= DirThreshold
      should_press_left == x <= -DirThreshold
      should_press_right == x >= DirThreshold
      m1 == set_stick_key_state(m, directions.up, should_press_up, env)
      m2 == set_stick_key_state(m1, directions.down, should_press_down, env)
      m3 == set_stick_key_state(m2, directions.left, should_press_left, env)
  IN set_stick_key_state(m3, directions.right, should_press_right, env)

\* MappingExecutor::handle_directional_keys
handle_directional_keys(m, x, y, directions, env) ==
  LET should_press_up == y < -DirThreshold
      should_press_down == y > DirThreshold
      should_press_left == x < -DirThreshold
      should_press_right == x > DirThreshold
      m1 == set_stick_key_state(m, directions.up, should_press_up, env)
      m2 == set_stick_key_state(m1, directions.down, should_press_down, env)
      m3 == set_stick_key_state(m2, directions.left, should_press_left, env)
  IN set_stick_key_state(m3, directions.right, should_press_right, env)

StickMappingOf(profile, stick) ==
  IF stick = "Left" THEN profile.sticks.left ELSE profile.sticks.right

\* MappingExecutor::release_directional_keys
release_directional_keys(m, stick, env) ==
  IF ~IsSome(current_profile(m)) THEN m
  ELSE
    LET mapping == StickMappingOf(Unwrap(current_profile(m)), stick)
    IN IF IsSome(mapping) /\ IsSome(Unwrap(mapping).directions)
         THEN LET d == Unwrap(Unwrap(mapping).directions)
                  m1 == set_stick_key_state(m, d.up, FALSE, env)
                  m2 == set_stick_key_state(m1, d.down, FALSE, env)
                  m3 == set_stick_key_state(m2, d.left, FALSE, env)
              IN set_stick_key_state(m3, d.right, FALSE, env)
         ELSE m

\* `as i32` of a product of fixed-point factors: truncation toward zero.
TruncDiv(a, b) == IF a >= 0 THEN a \div b ELSE -((-a) \div b)

\* (x * x + y * y).sqrt() < deadzone, on fixed-point values.
InDeadzone(x, y, deadzone) == deadzone > 0 /\ x * x + y * y < deadzone * deadzone

DeadzoneOf(stick) ==
  IF stick = "Left" THEN config.settings.left_stick_deadzone
                    ELSE config.settings.right_stick_deadzone

StickPos(m, stick) == IF stick = "Left" THEN m.left_stick ELSE m.right_stick

\* (x * mapping.sensitivity * sensitivity_factor * 10.0) as i32
MouseDelta(v, sensitivity, factor) ==
  TruncDiv(v * sensitivity * factor * MouseGain, FP * FP * FP)

\* apply_stick_movement whose deadzone branch returns without releasing the
\* directional keys.
apply_stick_movement_NoRelease(m, stick, env) ==
  IF ~IsSome(current_profile(m)) THEN m
  ELSE
    LET mapping == StickMappingOf(Unwrap(current_profile(m)), stick)
        pos == StickPos(m, stick)
    IN IF ~IsSome(mapping) THEN m
       ELSE IF InDeadzone(pos.x, pos.y, DeadzoneOf(stick)) THEN m
       ELSE
         CASE Unwrap(mapping).mode = "Mouse" ->
                LET f == get_sensitivity_factor(m)
                    dx == MouseDelta(pos.x, Unwrap(mapping).sensitivity, f)
                    dy == MouseDelta(pos.y, Unwrap(mapping).sensitivity, f)
                IN IF dx # 0 \/ dy # 0
                     THEN [m EXCEPT !.calls = Append(@, <<"move_relative", dx, dy>>)]
                     ELSE m
           [] Unwrap(mapping).mode = "Directional" ->
                IF IsSome(Unwrap(mapping).directions)
                  THEN handle_directional_keys(
                         m, pos.x, pos.y, Unwrap(Unwrap(mapping).directions), env)
                  ELSE m
           [] Unwrap(mapping).mode = "Disabled" -> m

\* MappingExecutor::apply_stick_movement
apply_stick_movement(m, stick, env) ==
  IF ~IsSome(current_profile(m)) THEN m
  ELSE
    LET mapping == StickMappingOf(Unwrap(current_profile(m)), stick)
        pos == StickPos(m, stick)
    IN IF ~IsSome(mapping) THEN m
       ELSE IF InDeadzone(pos.x, pos.y, DeadzoneOf(stick))
         THEN IF Unwrap(mapping).mode = "Directional"
                THEN release_directional_keys(m, stick, env)
                ELSE m
       ELSE
         CASE Unwrap(mapping).mode = "Mouse" ->
                LET f == get_sensitivity_factor(m)
                    dx == MouseDelta(pos.x, Unwrap(mapping).sensitivity, f)
                    dy == MouseDelta(pos.y, Unwrap(mapping).sensitivity, f)
                IN IF dx # 0 \/ dy # 0
                     THEN [m EXCEPT !.calls = Append(@, <<"move_relative", dx, dy>>)]
                     ELSE m
           [] Unwrap(mapping).mode = "Directional" ->
                IF IsSome(Unwrap(mapping).directions)
                  THEN handle_directional_keys(
                         m, pos.x, pos.y, Unwrap(Unwrap(mapping).directions), env)
                  ELSE m
           [] Unwrap(mapping).mode = "Disabled" -> m

\* on_stick_moved that stores the position and leaves its application to the
\* next tick.
on_stick_moved_StoreOnly(m, stick, x, y, env) ==
  IF stick = "Left"
    THEN [m EXCEPT !.left_stick = [x |-> x, y |-> y]]
    ELSE [m EXCEPT !.right_stick = [x |-> x, y |-> y]]

\* MappingExecutor::on_stick_moved
on_stick_moved(m, stick, x, y, env) ==
  LET m1 == IF stick = "Left"
              THEN [m EXCEPT !.left_stick = [x |-> x, y |-> y]]
              ELSE [m EXCEPT !.right_stick = [x |-> x, y |-> y]]
  IN apply_stick_movement(m1, stick, env)

\* MappingExecutor::on_gyro_update
on_gyro_update(m, side, x, y, z) ==
  IF ~IsSome(current_profile(m)) THEN m
  ELSE IF ~GyroActive(m, side) THEN m
  ELSE
    LET profile == Unwrap(current_profile(m))
        g == IF side = "Left" THEN profile.gyro.left ELSE profile.gyro.right
        f == get_sensitivity_factor(m)
        dx0 == y * g.sensitivity_x * f
        dy0 == (-x) * g.sensitivity_y * f
        dx == TruncDiv(IF g.invert_x THEN -dx0 ELSE dx0, FP * FP * FP)
        dy == TruncDiv(IF g.invert_y THEN -dy0 ELSE dy0, FP * FP * FP)
    IN IF dx # 0 \/ dy # 0
         THEN [m EXCEPT !.calls = Append(@, <<"move_relative", dx, dy>>)]
         ELSE m

\* ------------------------------------------------------------------ events

Ev(kind, button, stick, x, y, z) ==
  [kind |-> kind, button |-> button, stick |-> stick, x |-> x, y |-> y, z |-> z,
   key |-> <<>>, source |-> "-"]

ButtonPressedEv(b) == Ev("ButtonPressed", b, "-", 0, 0, 0)

ButtonReleasedEv(b) == Ev("ButtonReleased", b, "-", 0, 0, 0)

StickMovedEv(stick, x, y) == Ev("StickMoved", "-", stick, x, y, 0)

GyroUpdateEv(side, x, y, z) == Ev("GyroUpdate", "-", side, x, y, z)

StateUpdateEv == Ev("StateUpdate", "-", "-", 0, 0, 0)

ConnectedEv(side) == Ev("Connected", "-", side, 0, 0, 0)

DisconnectedEv(side) == Ev("Disconnected", "-", side, 0, 0, 0)

\* Steps of the executor loop that are not channel events.
TimeoutEv == Ev("Timeout", "-", "-", 0, 0, 0)

TickEv(stick) == Ev("Tick", "-", stick, 0, 0, 0)

InitEv == Ev("Init", "-", "-", 0, 0, 0)

\* MappingExecutor::process_event
process_event(m, e, env) ==
  CASE e.kind = "ButtonPressed" -> on_button_pressed(m, e.button, env)
    [] e.kind = "ButtonReleased" -> on_button_released(m, e.button, env)
    [] e.kind = "StickMoved" -> on_stick_moved(m, e.stick, e.x, e.y, env)
    [] e.kind = "GyroUpdate" -> on_gyro_update(m, e.stick, e.x, e.y, e.z)
    [] e.kind = "StateUpdate" -> m
    [] e.kind = "Connected" -> m
    [] e.kind = "Disconnected" -> release_all_held_keys(m, env)

\* One step of the executor thread's loop body (manager.rs): an event taken
\* from the channel, a receive timeout, or one of the two calls of
\* update_continuous_movements.
Handle(m, e, env) ==
  CASE e.kind = "Timeout" -> m
    [] e.kind = "Tick" -> apply_stick_movement(m, e.stick, env)
    [] OTHER -> process_event(m, e, env)

\* ------------------------------------------------------- the configurations

WASD ==
  Some(StickMapping("Directional", FP,
         Some(DirectionalKeys(<<"w">>, <<"s">>, <<"a">>, <<"d">>))))

ShiftWASD ==
  Some(StickMapping("Directional", FP,
         Some(DirectionalKeys(<<"shift", "+", "w">>, <<"s">>,
                              <<"shift", "+", "a">>, <<"d">>))))

MouseStick == Some(StickMapping("Mouse", FP, None))

\* A and B share the key "w" with the left stick's up direction.
CfgShared ==
  Config(SettingsDefault,
    <<Profile("base",
        ("A" :> <<KeyHold(<<"w">>)>>) @@ ("B" :> <<KeyHold(<<"w">>)>>),
        WASD, None, EmptyMap, EmptyMap)>>)

\* Scenario S4 of the specification: SLR cycles, A is "x" or "y"; the base
\* profile also maps the left stick.
CfgS4 ==
  Config(SettingsDefault,
    <<Profile("base",
        ("SLR" :> <<CycleProfiles>>) @@ ("A" :> <<KeyHold(<<"x">>)>>),
        WASD, None, EmptyMap, EmptyMap),
      Profile("game",
        ("SLR" :> <<CycleProfiles>>) @@ ("A" :> <<KeyHold(<<"y">>)>>),
        None, None, EmptyMap, EmptyMap)>>)

\* test_cycle_profiles_consistency_invalid: only one profile binds SLR.
CfgS4Invalid ==
  Config(SettingsDefault,
    <<Profile("base",
        ("SLR" :> <<CycleProfiles>>) @@ ("A" :> <<KeyHold(<<"x">>)>>),
        None, None, EmptyMap, EmptyMap),
      Profile("game",
        ("A" :> <<KeyHold(<<"y">>)>>),
        None, None, EmptyMap, EmptyMap)>>)

\* Scenario S5: B is "b", or a left click while the right gyro mouse is on.
CfgGyroR ==
  Config(SettingsDefault,
    <<Profile("base",
        ("B" :> <<KeyHold(<<"b">>)>>) @@ ("SRR" :> <<ToggleGyroMouseR>>),
        None, None, EmptyMap,
        ("B" :> <<MouseClick("Left")>>))>>)

\* The same on the left side, the override being a mouse move.
CfgGyroL ==
  Config(SettingsDefault,
    <<Profile("base",
        ("L" :> <<KeyHold(<<"l">>)>>) @@ ("ZL" :> <<ToggleGyroMouseL>>),
        None, None,
        ("L" :> <<MouseMove(10, 0), ActNone, KeyHoldNone>>),
        EmptyMap)>>)

\* The cycle button also holds a key, listed after CycleProfiles.
CfgCycleHold ==
  Config(SettingsDefault,
    <<Profile("base",
        ("SLR" :> <<CycleProfiles, KeyHold(<<"w">>)>>),
        None, None, EmptyMap, EmptyMap),
      Profile("game",
        ("SLR" :> <<CycleProfiles, KeyHold(<<"w">>)>>),
        None, None, EmptyMap, EmptyMap)>>)

\* The right gyro-mouse overrides rebind the cycle and the toggle button.
CfgOverrideMeta ==
  Config(SettingsDefault,
    <<Profile("base",
        ("SLR" :> <<CycleProfiles>>) @@ ("SRR" :> <<ToggleGyroMouseR>>),
        None, None, EmptyMap,
        ("SLR" :> <<KeyHold(<<"q">>)>>) @@ ("SRR" :> <<ActNone>>)),
      Profile("game",
        ("SLR" :> <<CycleProfiles>>) @@ ("SRR" :> <<ToggleGyroMouseR>>),
        None, None, EmptyMap,
        ("SLR" :> <<KeyHold(<<"q">>)>>) @@ ("SRR" :> <<ActNone>>))>>)

\* Scenario S1: the right stick moves the mouse; Y cycles the sensitivity.
CfgMouse ==
  Config(Settings(DefaultDeadzone, DefaultDeadzone, "base", <<100, 200>>),
    <<Profile("base",
        ("Y" :> <<CycleSensitivity>>),
        None, MouseStick, EmptyMap, EmptyMap)>>)

\* The left stick's directions are key combos; X holds a combo.
CfgCombo ==
  Config(SettingsDefault,
    <<Profile("base",
        ("X" :> <<KeyHold(<<"ctrl", " ", "+", " ", "d">>)>>),
        ShiftWASD, None, EmptyMap, EmptyMap)>>)

\* The configurations the executor is run with.
ConfigFamily ==
  {CfgShared, CfgS4, CfgS4Invalid, CfgGyroR, CfgGyroL, CfgCycleHold,
   CfgOverrideMeta, CfgMouse, CfgCombo}

\* Stick positions (x, y) the controller reports.
StickPositions ==
  {<<0, 0>>, <<10, 0>>, <<30, 0>>, <<50, -50>>, <<80, 0>>, <<-80, -80>>,
   <<0, -80>>, <<0, 80>>}

\* Gyro rates (x, y, z) the controller reports.
GyroSamples == {<<0, 0, 0>>, <<300, -200, 50>>}

\* The maps of a profile that bind buttons.
ButtonMaps(profile) ==
  {profile.buttons, profile.gyro_mouse_overrides_left,
   profile.gyro_mouse_overrides_right}

\* Buttons some profile of cfg binds: the buttons whose events are modelled.
UsedButtons(cfg) ==
  UNION {DOMAIN map : map \in UNION {ButtonMaps(cfg.profiles[i]) :
                                        i \in 1..Len(cfg.profiles)}}

\* Stick positions of the recorded scenarios.
TraceStickPositions == {<<0, 0>>, <<0, -80>>, <<50, -50>>}

\* Positions modelled for a stick: all of them when some profile maps the
\* stick, rest and one deflection otherwise; in a recorded scenario only
\* mapped sticks move, over TraceStickPositions.
StickInputs(cfg, stick, mock) ==
  LET mapped == \E i \in 1..Len(cfg.profiles) :
                   IsSome(StickMappingOf(cfg.profiles[i], stick))
  IN CASE mock /\ mapped -> TraceStickPositions
       [] mock /\ ~mapped -> {}
       [] ~mock /\ mapped -> StickPositions
       [] OTHER -> {<<0, 0>>, <<80, 0>>}

\* All orders in which the elements of a finite set can be enumerated.
Perms(S) ==
  {f \in [1..Cardinality(S) -> S] : \A i, j \in 1..Cardinality(S) : f[i] = f[j] => i = j}

\* --------------------------------------------------------- the executor loop

\* The two controller sides, each with its own controller thread.
Sides == {"Left", "Right"}

\* JoyConManager::new: both channels empty, running false, no MAC registered,
\* no thread spawned.
ManagerNew ==
  /\ running = FALSE
  /\ connected_macs = {}
  /\ event_channel = <<>>
  /\ peripheral_channel = <<>>
  /\ scanner = [pc |-> "unstarted", side |-> "-", mac |-> "-", adverts |-> 0]
  /\ controller = [s \in Sides |->
                     [pc |-> "unstarted", mac |-> "-", out |-> <<>>,
                      prev |-> FALSE, open |-> FALSE, inserted |-> {},
                      ended |-> FALSE]]
  /\ executor_thread = "unstarted"

\* Button bits of btn_data in Joy2L::parse_input_report and
\* Joy2R::parse_input_report.
ButtonMasks(side) ==
  IF side = "Left"
    THEN ("sll" :> 32) @@ ("srl" :> 16) @@ ("minus" :> 256) @@ ("l" :> 64)
         @@ ("zl" :> 128) @@ ("left" :> 8) @@ ("down" :> 1) @@ ("up" :> 2)
         @@ ("right" :> 4) @@ ("l3" :> 2048) @@ ("capture" :> 8192)
    ELSE ("zr" :> 32768) @@ ("r" :> 16384) @@ ("plus" :> 2) @@ ("slr" :> 8192)
         @@ ("srr" :> 4096) @@ ("y" :> 256) @@ ("b" :> 1024) @@ ("x" :> 512)
         @@ ("a" :> 2048) @@ ("r3" :> 4) @@ ("home" :> 16) @@ ("chat" :> 64)

\* Joy2L::default / Joy2R::default.  Sensor values are kept in the units of
\* the report (1/4096 G, 360/6048 degrees); report and notified are the last
\* payload given to update() and whether it called notify_low_battery, and
\* sampled whether a payload of full length has been given to it.
Joy2New(side) ==
  joy = [side |-> side,
         orientation |-> "Vertical",
         buttons |-> [b \in DOMAIN ButtonMasks(side) |-> FALSE],
         analog_stick |-> [x |-> 0, y |-> 0],
         accelerometer |-> [x |-> 0, y |-> 0, z |-> 0],
         gyroscope |-> [x |-> 0, y |-> 0, z |-> 0],
         mouse |-> [x |-> 0, y |-> 0, distance |-> 0],
         mouse_btn |-> [left |-> FALSE, right |-> FALSE,
                        scroll_x |-> 0, scroll_y |-> 0],
         timestamp |-> 0,
         motion_timestamp |-> 0,
         battery_level |-> 100,
         alert_sent |-> FALSE,
         is_connected |-> FALSE,
         report |-> <<>>,
         notified |-> FALSE,
         sampled |-> FALSE]

\* The ButtonType that process_left_button_events / process_right_button_events
\* give to check_button_change for each field of the snapshot's buttons, in
\* the order of the calls.
ButtonFields(side) ==
  IF side = "Left"
    THEN <<<<"zl", "ZL">>, <<"l", "L">>, <<"minus", "Minus">>,
           <<"capture", "Capture">>, <<"l3", "LeftStickClick">>,
           <<"up", "DpadUp">>, <<"down", "DpadDown">>, <<"left", "DpadLeft">>,
           <<"right", "DpadRight">>, <<"sll", "SLL">>, <<"srl", "SRL">>>>
    ELSE <<<<"a", "A">>, <<"b", "B">>, <<"x", "X">>, <<"y", "Y">>, <<"r", "R">>,
           <<"zr", "ZR">>, <<"plus", "Plus">>, <<"home", "Home">>,
           <<"r3", "RightStickClick">>, <<"slr", "SLR">>, <<"srr", "SRR">>,
           <<"chat", "Chat">>>>

\* controller_loop's locals before its notification loop: prev_buttons is the
\* snapshot of a new controller, prev_stick and prev_gyro are zero.  out are
\* the events sent for the last notification, last the kind of the last
\* event sent for each button.
SessionNew(side) ==
  session = [prev_buttons |-> [i \in 1..Len(ButtonFields(side)) |-> FALSE],
             prev_stick |-> [x |-> 0, y |-> 0],
             prev_gyro |-> [x |-> 0, y |-> 0, z |-> 0],
             out |-> <<>>,
             last |-> [i \in 1..Len(ButtonFields(side)) |-> "-"]]

\* JoyConConnection::new followed by set_mac_address when mac is Some.  A
\* handle is TRUE when it is Some; linked is the peripheral's GATT link; call,
\* ok and log are the last method called, its result and the BLE operations
\* it attempted.
ConnectionNew(mac) ==
  connection = [state |-> "Disconnected", tx_char |-> FALSE, cmd_char |-> FALSE,
                cmd_response_char |-> FALSE, mac_address |-> mac,
                linked |-> FALSE, call |-> "new", ok |-> TRUE, log |-> <<>>]


\* MappingExecutor::new: the index of the default profile, 0 if there is none.
DefaultProfileIndex(cfg) ==
  LET hits == {i \in 1..Len(cfg.profiles) :
                 cfg.profiles[i].name = cfg.settings.default_profile}
  IN IF hits = {} THEN 0 ELSE (CHOOSE i \in hits : \A j \in hits : i <= j) - 1

\* The fields MappingExecutor::new sets, and the empty records of a run.
ExecutorNew(cfg) ==
  /\ held_state = [buttons |-> {}, key_sources |-> EmptyMap, keys_down |-> {}]
  /\ current_profile_index = DefaultProfileIndex(cfg)
  /\ current_sensitivity_index = 0
  /\ gyro_mouse_state = [left_enabled |-> FALSE, right_enabled |-> FALSE]
  /\ left_stick = [x |-> 0, y |-> 0]
  /\ right_stick = [x |-> 0, y |-> 0]
  /\ lastEvent = InitEv
  /\ calls = <<>>
  /\ executed = <<>>
  /\ physDown = {}
  /\ kbAllOk = TRUE
  /\ kbLog = <<>>
  /\ evLog = <<>>
  /\ nEvents = 0
  /\ loopLog = <<>>

\* The executor thread's state once it has built its executor for cfg.
InitWith(cfg) ==
  /\ config = cfg
  /\ pc = "recv"
  /\ vresult = "-"
  /\ ExecutorNew(cfg)
  /\ ManagerNew
  /\ ConnectionNew(<<>>) /\ Joy2New("Left") /\ SessionNew("Left") /\ threads = <<>>

\* main.rs loads the configuration with Config::load, which validates it,
\* before the manager builds the executor.
Init == \E cfg \in ConfigFamily : validate(cfg) = "Ok" /\ InitWith(cfg)

\* No Button-source count above the modelled bound.
WithinRefBound(m) ==
  \A k \in DOMAIN m.key_sources : m.key_sources[k].button <= MaxRefCount

IsKbCall(c) == c[1] \in {"key_down", "key_up"}

IsKbErr(c) == IsKbCall(c) /\ Len(c) = 3

IsChannelEvent(e) == e.kind \notin {"Timeout", "Tick"}

\* Outcomes of the keyboard backend's calls in one step: the mock backend
\* always succeeds, the SendInput backend may fail.
KbOutcomes(mock) == IF mock THEN {TRUE} ELSE BOOLEAN

\* The executor handles e and moves to `next` in its loop.  The keyboard
\* backend's calls of this step succeed or fail (ok); clear_all drains
\* keys_down in some order (ord).  With the mock backends (mock) the run is
\* recorded in kbLog and evLog and limited to MaxEvents loop iterations.
Step(e, next, mock) ==
  \E ok \in KbOutcomes(mock) :
    \E m0 \in {Handle(Machine, e, [ok |-> ok, ord |-> <<>>])} :
      \E ord \in Perms(m0.drained) :
        \E m \in {IF m0.drained = {} THEN m0
                  ELSE Handle(Machine, e, [ok |-> ok, ord |-> ord])} :
            /\ WithinRefBound(m)
            /\ mock /\ pc = "recv" => nEvents < MaxEvents
            /\ held_state' = [buttons |-> m.buttons,
                              key_sources |-> m.key_sources,
                              keys_down |-> m.keys_down]
            /\ current_profile_index' = m.current_profile_index
            /\ current_sensitivity_index' = m.current_sensitivity_index
            /\ gyro_mouse_state' = m.gyro_mouse_state
            /\ left_stick' = m.left_stick
            /\ right_stick' = m.right_stick
            /\ pc' = next
            /\ lastEvent' = e
            /\ calls' = m.calls
            /\ executed' = m.executed
            /\ physDown' = CASE e.kind = "ButtonPressed" -> physDown \cup {e.button}
                             [] e.kind = "ButtonReleased" -> physDown \ {e.button}
                             [] OTHER -> physDown
            /\ kbAllOk' = (kbAllOk /\ \A i \in 1..Len(m.calls) : ~IsKbErr(m.calls[i]))
            /\ kbLog' = IF mock THEN kbLog \o SelectSeq(m.calls, IsKbCall) ELSE kbLog
            /\ evLog' = IF mock /\ IsChannelEvent(e) THEN Append(evLog, e) ELSE evLog
            /\ nEvents' = IF mock /\ pc = "recv" THEN nEvents + 1 ELSE nEvents
            /\ loopLog' = IF mock
                             THEN Append(loopLog, [event |-> e, calls |-> m.calls,
                                                   executed |-> m.executed])
                             ELSE loopLog
            /\ UNCHANGED <<config, vresult, mgrVars, connection, joy, session, threads>>

\* The actions below, up to Disconnected, are recv_timeout returning
\* Ok(event) followed by process_event(&event), one action per event kind.
ButtonPressed(mock) ==
  /\ pc = "recv"
  /\ \E b \in UsedButtons(config) : Step(ButtonPressedEv(b), "tickLeft", mock)

ButtonReleased(mock) ==
  /\ pc = "recv"
  /\ \E b \in UsedButtons(config) : Step(ButtonReleasedEv(b), "tickLeft", mock)

StickMoved(mock) ==
  /\ pc = "recv"
  /\ \E stick \in StickType : \E p \in StickInputs(config, stick, mock) :
       Step(StickMovedEv(stick, p[1], p[2]), "tickLeft", mock)

GyroUpdate(mock) ==
  /\ pc = "recv"
  /\ \E side \in ControllerSide : \E g \in GyroSamples :
       Step(GyroUpdateEv(side, g[1], g[2], g[3]), "tickLeft", mock)

StateUpdate(mock) ==
  /\ pc = "recv"
  /\ Step(StateUpdateEv, "tickLeft", mock)

Connected(mock) ==
  /\ pc = "recv"
  /\ \E side \in ControllerSide : Step(ConnectedEv(side), "tickLeft", mock)

Disconnected(mock) ==
  /\ pc = "recv"
  /\ \E side \in ControllerSide : Step(DisconnectedEv(side), "tickLeft", mock)

\* recv_timeout returned Err(Timeout)
Timeout(mock) == pc = "recv" /\ Step(TimeoutEv, "tickLeft", mock)

\* update_continuous_movements: apply_stick_movement(StickType::Left)
TickLeft(mock) == pc = "tickLeft" /\ Step(TickEv("Left"), "tickRight", mock)

\* update_continuous_movements: apply_stick_movement(StickType::Right)
TickRight(mock) == pc = "tickRight" /\ Step(TickEv("Right"), "recv", mock)

Next ==
  \/ ButtonPressed(FALSE)
  \/ ButtonReleased(FALSE)
  \/ StickMoved(FALSE)
  \/ GyroUpdate(FALSE)
  \/ StateUpdate(FALSE)
  \/ Connected(FALSE)
  \/ Disconnected(FALSE)
  \/ Timeout(FALSE)
  \/ TickLeft(FALSE)
  \/ TickRight(FALSE)

Spec == Init /\ [][Next]_vars

\* ------------------------------------------- recorded scenarios (mock backends)

\* Configurations of the recorded scenarios.
TraceConfigs == {CfgShared, CfgS4, CfgMouse}

InitTrace == \E cfg \in TraceConfigs : validate(cfg) = "Ok" /\ InitWith(cfg)

NextTrace ==
  \/ ButtonPressed(TRUE)
  \/ ButtonReleased(TRUE)
  \/ StickMoved(TRUE)
  \/ Timeout(TRUE)
  \/ TickLeft(TRUE)
  \/ TickRight(TRUE)

SpecTrace == InitTrace /\ [][NextTrace]_vars

\* The recorded scenarios with controllers that disconnect.
NextDisconnect == NextTrace \/ Disconnected(TRUE)

SpecDisconnect == InitTrace /\ [][NextDisconnect]_vars

\* A holds the left mouse button; the left stick is mapped to keys.
CfgClick ==
  Config(SettingsDefault,
    <<Profile("base",
        ("A" :> <<MouseClick("Left")>>),
        WASD, None, EmptyMap, EmptyMap)>>)

InitClick == validate(CfgClick) = "Ok" /\ InitWith(CfgClick)

\* The recorded scenarios of a profile with a mouse-click binding.
SpecClick == InitClick /\ [][NextDisconnect]_vars

\* ------------------------------------------------- HeldState, called directly

\* Key names the direct calls use; the empty name is ignored by the code.
HeldKeys == {<<>>, <<"w">>, <<"a">>}

KeySource == {"Button", "Stick"}

HeldEv(kind, key, source) ==
  [Ev(kind, "-", "-", 0, 0, 0) EXCEPT !.key = key, !.source = source]

\* One call of a HeldState method, m being the state it leaves.
HeldStep(m, e) ==
  /\ pc = "held"
  /\ WithinRefBound(m)
  /\ held_state' = [buttons |-> m.buttons,
                    key_sources |-> m.key_sources,
                    keys_down |-> m.keys_down]
  /\ lastEvent' = e
  /\ calls' = m.calls
  /\ kbAllOk' = (kbAllOk /\ \A i \in 1..Len(m.calls) : ~IsKbErr(m.calls[i]))
  /\ UNCHANGED <<config, current_profile_index, current_sensitivity_index,
                 gyro_mouse_state, left_stick, right_stick, pc, executed,
                 physDown, kbLog, evLog, nEvents, loopLog, vresult, mgrVars,
                 connection, joy, session, threads>>

PressKeyCall ==
  /\ pc = "held"
  /\ \E key \in HeldKeys : \E source \in KeySource : \E ok \in BOOLEAN :
    HeldStep(press_key(Machine, key, source, [ok |-> ok, ord |-> <<>>]),
             HeldEv("press_key", key, source))

ReleaseKeyCall ==
  /\ pc = "held"
  /\ \E key \in HeldKeys : \E source \in KeySource : \E ok \in BOOLEAN :
    HeldStep(release_key(Machine, key, source, [ok |-> ok, ord |-> <<>>]),
             HeldEv("release_key", key, source))

ClearAllCall ==
  /\ pc = "held"
  /\ \E ok \in BOOLEAN : \E ord \in Perms(held_state.keys_down) :
    HeldStep(clear_all(Machine, [ok |-> ok, ord |-> ord]),
             HeldEv("clear_all", <<>>, "-"))

InitHeld ==
  /\ config = CfgShared /\ pc = "held" /\ vresult = "-" /\ ExecutorNew(CfgShared)
  /\ ManagerNew /\ ConnectionNew(<<>>) /\ Joy2New("Left") /\ SessionNew("Left") /\ threads = <<>>

NextHeld == PressKeyCall \/ ReleaseKeyCall \/ ClearAllCall

SpecHeld == InitHeld /\ [][NextHeld]_vars

\* ------------------------------------------------------ validate() on its own

\* Configurations validate() is run on.  With the default settings: one, two
\* and three profiles whose maps bind SLR and SRR to key and meta actions,
\* with and without an override map that carries a meta action.  With one
\* plain profile list: every combination of deadzones, sensitivity factors
\* and default_profile, NaN among them.
ValidateFamily ==
  LET VButtons == {"SLR", "SRR"}
      VActionLists ==
        {<<CycleProfiles>>, <<ToggleGyroMouseL>>, <<ToggleGyroMouseR>>,
         <<KeyHold(<<"x">>)>>, <<KeyHold(<<"x">>), CycleProfiles>>}
      VMaps == UNION {[D -> VActionLists] : D \in SUBSET VButtons}
      VOverrides == {EmptyMap, ("SLR" :> <<CycleProfiles>>)}
      VProfiles(name) ==
        {Profile(name, map, None, None, EmptyMap, ov) : map \in VMaps, ov \in VOverrides}
      VSmallMaps ==
        UNION {[D -> {<<CycleProfiles>>, <<ToggleGyroMouseR>>}] : D \in SUBSET VButtons}
      VSmallProfiles(name) ==
        {Profile(name, map, None, None, EmptyMap, EmptyMap) : map \in VSmallMaps}
      VDeadzones == {-10, 0, DefaultDeadzone, FP, 150, NaN}
      VFactors == {<<100, 200, 300>>, <<100, 0>>, <<-100, 100>>, <<100, NaN>>, <<>>}
      VSettings ==
        {Settings(dzl, dzr, dp, f) :
           dzl \in VDeadzones, dzr \in VDeadzones, dp \in {"base", "other"},
           f \in VFactors}
      Plain(name) == Profile(name, EmptyMap, None, None, EmptyMap, EmptyMap)
      VLists == {<<>>, <<Plain("base")>>, <<Plain("game"), Plain("base")>>}
  IN
  {Config(SettingsDefault, <<p>>) : p \in VProfiles("base")}
    \cup {Config(SettingsDefault, <<p, q>>) :
            p \in VProfiles("base"), q \in VProfiles("game")}
    \cup {Config(SettingsDefault, <<p, q, r>>) :
            p \in VSmallProfiles("base"), q \in VSmallProfiles("game"),
            r \in VSmallProfiles("extra")}
    \cup {Config(st, ps) : st \in VSettings, ps \in VLists}

InitValidate ==
  \E cfg \in ValidateFamily :
    /\ config = cfg /\ pc = "validate" /\ vresult = "-" /\ ExecutorNew(cfg)
    /\ ManagerNew /\ ConnectionNew(<<>>) /\ Joy2New("Left") /\ SessionNew("Left") /\ threads = <<>>

\* Config::load: config.validate()
Validate ==
  /\ pc = "validate"
  /\ vresult' = validate(config)
  /\ pc' = "validated"
  /\ UNCHANGED <<config, held_state, current_profile_index,
                 current_sensitivity_index, gyro_mouse_state, left_stick,
                 right_stick, lastEvent, calls, executed, physDown, kbAllOk,
                 kbLog, evLog, nEvents, loopLog, mgrVars, connection, joy, session, threads>>

SpecValidate == InitValidate /\ [][Validate]_vars

\* ================================================================== manager
\* The threads start() spawns (manager.rs): the scanner, one controller thread
\* per side and the executor thread, over the two bounded channels and the
\* MAC-dedup set.  What the executor does with an event it received is the
\* subject of Spec; here the executor thread is the channel's consumer.

\* Capacity of the event channel in the model (bounded(100) in the code).
EventCap == 1

\* Capacity of the peripheral channel in the model (bounded(10) in the code).
PeriCap == 1

\* Advertisements the scanner takes up in one run.
MaxAdverts == 2

\* MAC addresses of the advertising devices.
Macs == {"m1", "m2"}

\* The button whose bit the notifications of a side's controller carry.
SideButton(side) == IF side = "Left" THEN "L" ELSE "R"

\* crossbeam bounded channel: send() returns only once the message is in the
\* channel; while the channel is full the sending thread is blocked.
CanSend(channel, cap) == Len(channel) < cap

\* controller_loop's registration that inserts without looking.
RegisterMac_NoAbort(macs, mac) == [ok |-> TRUE, macs |-> macs \cup {mac}]

\* controller_loop: under one lock of connected_macs, fail if the MAC is
\* present, insert it otherwise.
RegisterMac(macs, mac) ==
  IF mac \in macs THEN [ok |-> FALSE, macs |-> macs]
                  ELSE [ok |-> TRUE, macs |-> macs \cup {mac}]

\* start() on a new manager: running is set and the four threads are spawned.
InitMgr ==
  /\ config = CfgShared /\ pc = "manager" /\ vresult = "-" /\ ExecutorNew(CfgShared)
  /\ ConnectionNew(<<>>) /\ Joy2New("Left") /\ SessionNew("Left") /\ threads = <<>>
  /\ running = TRUE
  /\ connected_macs = {}
  /\ event_channel = <<>>
  /\ peripheral_channel = <<>>
  /\ scanner = [pc |-> "top", side |-> "-", mac |-> "-", adverts |-> 0]
  /\ controller = [s \in Sides |->
                     [pc |-> "top", mac |-> "-", out |-> <<>>,
                      prev |-> FALSE, open |-> FALSE, inserted |-> {},
                      ended |-> FALSE]]
  /\ executor_thread = "top"

\* JoyConManager::stop
stop ==
  /\ pc = "manager"
  /\ running
  /\ running' = FALSE
  /\ UNCHANGED <<connected_macs, event_channel, peripheral_channel, scanner,
                 controller, executor_thread, execVars, connection, joy, session, threads>>

\* The scanner thread's outer loop: while running, run scan_for_controllers
\* (a failed set-up sleeps 5 s and comes back here); exit otherwise.
start_scan_thread ==
  /\ pc = "manager"
  /\ scanner.pc = "top"
  /\ scanner' = [scanner EXCEPT !.pc = IF running THEN "select" ELSE "exited"]
  /\ UNCHANGED <<running, connected_macs, event_channel, peripheral_channel,
                 controller, executor_thread, execVars, connection, joy, session, threads>>

\* scan_for_controllers.  One iteration of its loop: leave when running is
\* false (stop_scan, Ok or Err); otherwise take a Joy-Con advertisement with
\* its side byte and look the peripheral up, which may fail with Err.  Then
\* skip the advertisement when its MAC is registered, else
\* peripheral_sender.send((peripheral, side, mac)).
scan_for_controllers ==
  /\ pc = "manager"
  /\ \/ /\ scanner.pc = "select"
        /\ ~running
        /\ scanner' = [scanner EXCEPT !.pc = "top"]
        /\ UNCHANGED peripheral_channel
     \/ /\ scanner.pc = "select"
        /\ running
        /\ scanner.adverts < MaxAdverts
        /\ \E side \in Sides, mac \in Macs :
             scanner' = [pc |-> "check", side |-> side, mac |-> mac,
                         adverts |-> scanner.adverts + 1]
        /\ UNCHANGED peripheral_channel
     \/ /\ scanner.pc = "select"
        /\ running
        /\ scanner.adverts < MaxAdverts
        /\ scanner' = [scanner EXCEPT !.pc = "top", !.adverts = @ + 1]
        /\ UNCHANGED peripheral_channel
     \/ /\ scanner.pc = "check"
        /\ scanner' =
             IF scanner.mac \in connected_macs
               THEN [scanner EXCEPT !.pc = "select", !.side = "-", !.mac = "-"]
               ELSE [scanner EXCEPT !.pc = "send"]
        /\ UNCHANGED peripheral_channel
     \/ /\ scanner.pc = "send"
        /\ CanSend(peripheral_channel, PeriCap)
        /\ peripheral_channel' =
             Append(peripheral_channel, [side |-> scanner.side, mac |-> scanner.mac])
        /\ scanner' = [scanner EXCEPT !.pc = "select", !.side = "-", !.mac = "-"]
  /\ UNCHANGED <<running, connected_macs, event_channel, controller,
                 executor_thread, execVars, connection, joy, session, threads>>

\* The controller thread's loop: while running, recv_timeout(1 s) on the
\* peripheral channel; a tuple of the other side is dropped, a tuple of this
\* side starts controller_loop, a timeout goes round.
start_controller_thread(s) ==
  /\ pc = "manager"
  /\ \/ /\ controller[s].pc = "top"
        /\ controller' = [controller EXCEPT ![s].pc = IF running THEN "recv" ELSE "exited"]
        /\ UNCHANGED peripheral_channel
     \/ /\ controller[s].pc = "recv"
        /\ peripheral_channel # <<>>
        /\ peripheral_channel' = Tail(peripheral_channel)
        /\ controller' =
             IF Head(peripheral_channel).side # s
               THEN [controller EXCEPT ![s].pc = "top"]
               ELSE [controller EXCEPT ![s].pc = "register",
                                       ![s].mac = Head(peripheral_channel).mac]
     \/ /\ controller[s].pc = "recv"
        /\ peripheral_channel = <<>>
        /\ controller' = [controller EXCEPT ![s].pc = "top"]
        /\ UNCHANGED peripheral_channel
  /\ UNCHANGED <<running, connected_macs, event_channel, scanner,
                 executor_thread, execVars, connection, joy, session, threads>>

\* controller_loop up to the notification loop: register the MAC, connect(),
\* initialize(), send Connected, open the notification stream.  Every `?`
\* returns Err to the thread's loop.
ControllerSetup(s) ==
  /\ pc = "manager"
  /\ \/ /\ controller[s].pc = "register"
        /\ \E r \in {RegisterMac(connected_macs, controller[s].mac)} :
             /\ connected_macs' = r.macs
             /\ controller' =
                  IF r.ok
                    THEN [controller EXCEPT
                            ![s].pc = "connect",
                            ![s].inserted = @ \cup {controller[s].mac}]
                    ELSE [controller EXCEPT ![s].pc = "top", ![s].mac = "-"]
        /\ UNCHANGED event_channel
     \/ /\ controller[s].pc = "connect"
        /\ \/ controller' = [controller EXCEPT ![s].pc = "initialize"]
           \/ controller' = [controller EXCEPT ![s].pc = "top", ![s].mac = "-"]
        /\ UNCHANGED <<connected_macs, event_channel>>
     \/ /\ controller[s].pc = "initialize"
        /\ \/ controller' = [controller EXCEPT ![s].pc = "sendConnected"]
           \/ controller' = [controller EXCEPT ![s].pc = "top", ![s].mac = "-"]
        /\ UNCHANGED <<connected_macs, event_channel>>
     \/ /\ controller[s].pc = "sendConnected"
        /\ CanSend(event_channel, EventCap)
        /\ event_channel' = Append(event_channel, ConnectedEv(s))
        /\ controller' = [controller EXCEPT ![s].pc = "notifications",
                                            ![s].open = TRUE]
        /\ UNCHANGED connected_macs
     \/ /\ controller[s].pc = "notifications"
        /\ \/ controller' = [controller EXCEPT ![s].pc = "loop", ![s].prev = FALSE]
           \/ controller' = [controller EXCEPT ![s].pc = "top", ![s].mac = "-"]
        /\ UNCHANGED <<connected_macs, event_channel>>
  /\ UNCHANGED <<running, peripheral_channel, scanner, executor_thread,
                 execVars, connection, joy, session, threads>>

\* A check_button_change that follows the level of the bit instead of its
\* edges.
check_button_change_Level(current, previous, button) ==
  IF current THEN <<ButtonPressedEv(button)>>
  ELSE IF previous THEN <<ButtonReleasedEv(button)>>
  ELSE <<>>

\* check_button_change: the event for a button bit that differs from the
\* previous snapshot's, nothing otherwise.
check_button_change(current, previous, button) ==
  IF current /\ ~previous THEN <<ButtonPressedEv(button)>>
  ELSE IF ~current /\ previous THEN <<ButtonReleasedEv(button)>>
  ELSE <<>>

\* The notification loop: while running, take a notification, compare its
\* button bit with the previous one and send the event of a change (the
\* StickMoved and GyroUpdate events of a notification go through the same
\* sender.send); leave for the teardown when running is false.  The stream
\* may end at any time (the device drops the link): notification_stream.next()
\* then yields None, the select! arm `Some(notification) = ...` is disabled
\* and only the 1 ms sleep arm, which tests running, is taken.
NotificationLoop(s) ==
  /\ pc = "manager"
  /\ \/ /\ controller[s].pc = "loop"
        /\ ~running
        /\ controller' = [controller EXCEPT ![s].pc = "disconnect",
                                            ![s].prev = FALSE,
                                            ![s].ended = FALSE]
        /\ UNCHANGED event_channel
     \/ /\ controller[s].pc = "loop"
        /\ running
        /\ ~controller[s].ended
        /\ controller' = [controller EXCEPT ![s].ended = TRUE]
        /\ UNCHANGED event_channel
     \/ /\ controller[s].pc = "loop"
        /\ running
        /\ ~controller[s].ended
        /\ \E current \in BOOLEAN :
             \E out \in {check_button_change(current, controller[s].prev,
                                             SideButton(s))} :
               /\ out # <<>>
               /\ controller' = [controller EXCEPT ![s].pc = "emit",
                                                   ![s].out = out,
                                                   ![s].prev = current]
        /\ UNCHANGED event_channel
     \/ /\ controller[s].pc = "emit"
        /\ CanSend(event_channel, EventCap)
        /\ event_channel' = Append(event_channel, controller[s].out[1])
        /\ controller' = [controller EXCEPT ![s].pc = "loop", ![s].out = <<>>]
  /\ UNCHANGED <<running, connected_macs, peripheral_channel, scanner,
                 executor_thread, execVars, connection, joy, session, threads>>

\* controller_loop after the notification loop: disconnect() (an error is
\* only logged), remove the MAC, send Disconnected, return Ok.
ControllerTeardown(s) ==
  /\ pc = "manager"
  /\ \/ /\ controller[s].pc = "disconnect"
        /\ controller' = [controller EXCEPT ![s].pc = "remove"]
        /\ UNCHANGED <<connected_macs, event_channel>>
     \/ /\ controller[s].pc = "remove"
        /\ connected_macs' = connected_macs \ {controller[s].mac}
        /\ controller' = [controller EXCEPT
                            ![s].pc = "sendDisconnected",
                            ![s].inserted = @ \ {controller[s].mac}]
        /\ UNCHANGED event_channel
     \/ /\ controller[s].pc = "sendDisconnected"
        /\ CanSend(event_channel, EventCap)
        /\ event_channel' = Append(event_channel, DisconnectedEv(s))
        /\ controller' = [controller EXCEPT ![s].pc = "top", ![s].mac = "-",
                                            ![s].open = FALSE]
        /\ UNCHANGED connected_macs
  /\ UNCHANGED <<running, peripheral_channel, scanner, executor_thread,
                 execVars, connection, joy, session, threads>>

\* The executor thread's loop: while running, recv_timeout(16 ms) on the
\* event channel, process the event if there is one, update the continuous
\* movements.
start_executor_thread ==
  /\ pc = "manager"
  /\ \/ /\ executor_thread = "top"
        /\ executor_thread' = IF running THEN "recv" ELSE "exited"
        /\ UNCHANGED event_channel
     \/ /\ executor_thread = "recv"
        /\ event_channel # <<>>
        /\ event_channel' = Tail(event_channel)
        /\ executor_thread' = "top"
     \/ /\ executor_thread = "recv"
        /\ event_channel = <<>>
        /\ executor_thread' = "top"
        /\ UNCHANGED event_channel
  /\ UNCHANGED <<running, connected_macs, peripheral_channel, scanner,
                 controller, execVars, connection, joy, session, threads>>

\* One step of the scanner thread.
ScannerNext == start_scan_thread \/ scan_for_controllers

\* One step of controller thread s.
ControllerNext(s) ==
  \/ start_controller_thread(s)
  \/ ControllerSetup(s)
  \/ NotificationLoop(s)
  \/ ControllerTeardown(s)

NextMgr ==
  \/ stop
  \/ ScannerNext
  \/ \E s \in Sides : ControllerNext(s)
  \/ start_executor_thread

SpecMgr == InitMgr /\ [][NextMgr]_vars

\* Every spawned thread keeps being scheduled: a thread that can take a step
\* eventually takes one.  stop() is the caller's choice and is not forced.
SpecMgrFair ==
  /\ SpecMgr
  /\ WF_vars(ScannerNext)
  /\ \A s \in Sides : WF_vars(ControllerNext(s))
  /\ WF_vars(start_executor_thread)

\* ------------------------------------------- the executor thread until its exit
\* start_executor_thread's closure with the executor it owns: the loop runs
\* `while running`, and the thread returns when the test fails.

\* start() has spawned the executor thread, which built its executor.
InitExit ==
  /\ config = CfgShared /\ pc = "recv" /\ vresult = "-" /\ ExecutorNew(CfgShared)
  /\ ConnectionNew(<<>>) /\ Joy2New("Left") /\ SessionNew("Left") /\ threads = <<>>
  /\ running = TRUE
  /\ connected_macs = {}
  /\ event_channel = <<>>
  /\ peripheral_channel = <<>>
  /\ scanner = [pc |-> "unstarted", side |-> "-", mac |-> "-", adverts |-> 0]
  /\ controller = [s \in Sides |->
                     [pc |-> "unstarted", mac |-> "-", out |-> <<>>,
                      prev |-> FALSE, open |-> FALSE, inserted |-> {},
                      ended |-> FALSE]]
  /\ executor_thread = "top"

\* One iteration of the executor thread's loop, entered with running true.
ExecutorIteration == running /\ NextDisconnect

\* JoyConManager::stop (or drop) while the executor thread runs.
StopExecutor ==
  /\ pc \in {"recv", "tickLeft", "tickRight"}
  /\ running
  /\ running' = FALSE
  /\ UNCHANGED <<connected_macs, event_channel, peripheral_channel, scanner,
                 controller, executor_thread, execVars, connection, joy, session, threads>>

\* `while running.load(..)` fails: the closure logs "Executor thread stopped"
\* and returns, dropping the executor.
ExecutorExit ==
  /\ pc = "recv"
  /\ ~running
  /\ pc' = "exited"
  /\ executor_thread' = "exited"
  /\ UNCHANGED <<config, held_state, current_profile_index,
                 current_sensitivity_index, gyro_mouse_state, left_stick,
                 right_stick, lastEvent, calls, executed, physDown, kbAllOk,
                 kbLog, evLog, nEvents, loopLog, vresult, running,
                 connected_macs, event_channel, peripheral_channel, scanner,
                 controller, connection, joy, session, threads>>

NextExit == ExecutorIteration \/ StopExecutor \/ ExecutorExit

SpecExit == InitExit /\ [][NextExit]_vars

\* ------------------------------------------------ start() and stop(), repeated
\* start() spawns its threads and returns; stop() stores running = false and
\* returns.  No JoinHandle is kept: a thread ends when its own loop test
\* `while running.load(..)` next fails.

\* Calls of start() that spawn threads in one run of the model.
MaxStarts == 2

\* The threads one start() spawns, in the order of the calls in start().
SpawnedByStart ==
  <<[name |-> "executor", pc |-> "top"],
    [name |-> "scanner", pc |-> "top"],
    [name |-> "controller-left", pc |-> "top"],
    [name |-> "controller-right", pc |-> "top"]>>

InitRestart ==
  /\ config = CfgShared /\ pc = "manager" /\ vresult = "-" /\ ExecutorNew(CfgShared)
  /\ ManagerNew
  /\ ConnectionNew(<<>>) /\ Joy2New("Left") /\ SessionNew("Left")
  /\ threads = <<>>

\* JoyConManager::start: Err when running is set; otherwise set it and spawn
\* the executor, the scanner and the two controller threads.
start ==
  /\ pc = "manager"
  /\ ~running
  /\ Len(threads) < 4 * MaxStarts
  /\ running' = TRUE
  /\ threads' = threads \o SpawnedByStart
  /\ UNCHANGED <<connected_macs, event_channel, peripheral_channel, scanner,
                 controller, executor_thread, execVars, connection, joy, session>>

\* A spawned thread: at the top of its loop it tests running and enters the
\* body or returns; the body (a recv_timeout, a scan, a controller session)
\* comes back to the top.
ThreadLoop ==
  /\ pc = "manager"
  /\ \E i \in 1..Len(threads) :
       /\ threads[i].pc # "exited"
       /\ threads' = [threads EXCEPT ![i].pc =
                        CASE threads[i].pc = "top" ->
                               IF running THEN "body" ELSE "exited"
                          [] threads[i].pc = "body" -> "top"]
  /\ UNCHANGED <<mgrVars, execVars, connection, joy, session>>

NextRestart == start \/ stop \/ ThreadLoop

SpecRestart == InitRestart /\ [][NextRestart]_vars

\* =============================================================== connection
\* JoyConConnection (joycon2/connection.rs).  A connection has one owner
\* (&mut self), so each method call is one step; which BLE operation of the
\* call fails, and which characteristics the device offers, is chosen by the
\* environment.

\* The first k - 1 operations of ops succeeded and, when k <= Len(ops), the
\* k-th failed and ended the call with `?`.
Attempted(ops, k) ==
  [i \in 1..(IF k <= Len(ops) THEN k ELSE Len(ops)) |->
     [op |-> ops[i], ok |-> i < k]]

\* JoyConConnection::connect
connect ==
  /\ pc = "connection"
  /\ \E link, discover \in BOOLEAN, found \in SUBSET {"tx", "cmd", "cmd_response"} :
       LET ops == <<"connect", "discover_services">>
           k == IF ~link THEN 1 ELSE IF ~discover THEN 2 ELSE 3
           tx == connection.tx_char \/ (k = 3 /\ "tx" \in found)
           cmd == connection.cmd_char \/ (k = 3 /\ "cmd" \in found)
           rsp == connection.cmd_response_char \/ (k = 3 /\ "cmd_response" \in found)
       IN connection' =
            [connection EXCEPT
               !.state = "Connecting",
               !.linked = @ \/ link,
               !.tx_char = tx, !.cmd_char = cmd, !.cmd_response_char = rsp,
               !.call = "connect",
               !.ok = (k = 3 /\ tx /\ cmd /\ rsp),
               !.log = Attempted(ops, k)]
  /\ UNCHANGED <<execVars, mgrVars, joy, session, threads>>

\* send_initialization_commands that sets the player LED before the rumble.
send_initialization_commands_LedFirst(mac_address) ==
  (IF IsSome(mac_address)
     THEN <<"write JOY2_SAVE_MAC_ADDR_STEP1", "write JOY2_SAVE_MAC_ADDR_STEP2",
            "write JOY2_SAVE_MAC_ADDR_STEP3", "write JOY2_SAVE_MAC_ADDR_STEP4">>
     ELSE <<>>)
  \o <<"write JOY2_SET_PLAYER_LED", "write JOY2_CONNECTED_VIBRATION",
       "write JOY2_INIT_SENSOR_DATA", "write JOY2_FINALIZE_SENSOR_DATA",
       "write JOY2_START_SENSOR_DATA">>

\* send_initialization_commands, with save_mac_address and
\* send_connection_vibration: the writes to cmd, in order.
send_initialization_commands(mac_address) ==
  (IF IsSome(mac_address)
     THEN <<"write JOY2_SAVE_MAC_ADDR_STEP1", "write JOY2_SAVE_MAC_ADDR_STEP2",
            "write JOY2_SAVE_MAC_ADDR_STEP3", "write JOY2_SAVE_MAC_ADDR_STEP4">>
     ELSE <<>>)
  \o <<"write JOY2_CONNECTED_VIBRATION", "write JOY2_SET_PLAYER_LED",
       "write JOY2_INIT_SENSOR_DATA", "write JOY2_FINALIZE_SENSOR_DATA",
       "write JOY2_START_SENSOR_DATA">>

\* JoyConConnection::initialize.  send_command returns Err before any write
\* when cmd_char is None.
initialize ==
  /\ pc = "connection"
  /\ LET ops == (IF connection.cmd_response_char
                   THEN <<"subscribe cmd_response">> ELSE <<>>)
                \o (IF connection.cmd_char
                      THEN send_initialization_commands(connection.mac_address)
                           \o (IF connection.tx_char
                                 THEN <<"subscribe tx">> ELSE <<>>)
                      ELSE <<>>)
     IN \E k \in 1..(Len(ops) + 1) :
          LET done == k = Len(ops) + 1 /\ connection.cmd_char
          IN connection' =
               [connection EXCEPT
                  !.state = IF done THEN "Ready" ELSE "Initializing",
                  !.call = "initialize",
                  !.ok = done,
                  !.log = Attempted(ops, k)]
  /\ UNCHANGED <<execVars, mgrVars, joy, session, threads>>

\* JoyConConnection::disconnect: the unsubscribes' results are ignored, a
\* failing peripheral.disconnect() returns with `?`.
disconnect ==
  /\ pc = "connection"
  /\ \E unsub_tx, unsub_rsp, closed \in BOOLEAN :
       LET unsubs ==
             (IF connection.tx_char
                THEN <<[op |-> "unsubscribe tx", ok |-> unsub_tx]>> ELSE <<>>)
             \o (IF connection.cmd_response_char
                   THEN <<[op |-> "unsubscribe cmd_response", ok |-> unsub_rsp]>>
                   ELSE <<>>)
       IN connection' =
            [connection EXCEPT
               !.state = IF closed THEN "Disconnected" ELSE @,
               !.linked = IF closed THEN FALSE ELSE @,
               !.call = "disconnect",
               !.ok = closed,
               !.log = Append(unsubs, [op |-> "disconnect", ok |-> closed])]
  /\ UNCHANGED <<execVars, mgrVars, joy, session, threads>>

\* A new connection, with or without a MAC address for pairing.
InitConn ==
  /\ config = CfgShared /\ pc = "connection" /\ vresult = "-" /\ ExecutorNew(CfgShared)
  /\ ManagerNew
  /\ \E mac \in {None, Some("mac")} : ConnectionNew(mac)
  /\ Joy2New("Left") /\ SessionNew("Left") /\ threads = <<>>

NextConn == connect \/ initialize \/ disconnect

SpecConn == InitConn /\ [][NextConn]_vars

\* ============================================================ input reports
\* Joy2L / Joy2R::update (controller.rs).  A payload is given by its length
\* and by the values its byte fields hold: timestamp (bytes 0-3), btn_data,
\* the two 12-bit stick values, the mouse bytes, motion_timestamp, the raw
\* accelerometer and gyroscope triples and battery_raw (bytes 31-32).

\* A battery block that stores every reading.
update_battery_Always(j, battery_raw) ==
  LET new_battery == (battery_raw * 200 + 4095) \div 8190
  IN [battery_level |-> new_battery,
      alert |-> new_battery < 10 /\ j.is_connected /\ ~j.alert_sent]

\* The battery block of parse_input_report: the stored percent and whether
\* notify_low_battery is called, for the reading battery_raw.
update_battery(j, battery_raw) ==
  LET \* (battery_raw as f32 * 100.0 / 4095.0).round()
      new_battery == (battery_raw * 200 + 4095) \div 8190
      battery_level ==
        IF new_battery < j.battery_level \/ ~j.is_connected
          THEN new_battery ELSE j.battery_level
  IN [battery_level |-> battery_level,
      alert |-> battery_level < 10 /\ j.is_connected /\ ~j.alert_sent]

\* parse_input_report past its length check: the snapshot after the payload
\* data.  Stick values are in hundredths, sensor values in the units of the
\* report.
ParseFields(j, data) ==
  LET clamp(v, lo, hi) == IF v < lo THEN lo ELSE IF v > hi THEN hi ELSE v
      saturating_sub(a, b) == IF a < b THEN 0 ELSE a - b
      \* decode_joystick with StickCalibration::default()
      x_norm == clamp((saturating_sub(data.x_raw, 780) * FP) \div (3260 - 780), 0, FP)
      y_norm == FP - clamp((saturating_sub(data.y_raw, 820) * FP) \div (3250 - 820), 0, FP)
      sx == x_norm * 2 - FP
      sy == y_norm * 2 - FP
      stick == IF j.orientation = "Horizontal" THEN [x |-> sy, y |-> sx]
               ELSE [x |-> sx, y |-> sy]
      \* decode_scroll
      scroll(raw, lo, hi) ==
        LET v == TruncDiv(clamp(2 * raw - (hi + lo), -(hi - lo), hi - lo) * 32767, hi - lo)
        IN IF v > -3000 /\ v < 3000 THEN 0 ELSE v
      bit(b) == (data.btn_data \div ButtonMasks(j.side)[b]) % 2 = 1
      battery ==
        IF data.len >= 33 THEN update_battery(j, data.battery_raw)
        ELSE [battery_level |-> j.battery_level, alert |-> FALSE]
  IN
  [j EXCEPT
          !.mouse = IF data.len >= 24
                      THEN [x |-> data.mouse[1], y |-> data.mouse[2],
                            distance |-> data.mouse[3]]
                      ELSE @,
          !.timestamp = data.timestamp,
          !.motion_timestamp = IF data.len >= 46 THEN data.motion_timestamp ELSE @,
          !.accelerometer = IF data.len >= 54
                              THEN [x |-> -data.accel[1], y |-> -data.accel[3],
                                    z |-> data.accel[2]]
                              ELSE @,
          !.gyroscope = IF data.len >= 60
                          THEN [x |-> data.gyro[1], y |-> -data.gyro[3],
                                z |-> data.gyro[2]]
                          ELSE @,
          !.buttons = [b \in DOMAIN ButtonMasks(j.side) |-> bit(b)],
          !.analog_stick = stick,
          !.mouse_btn = [left |-> bit(IF j.side = "Left" THEN "l" ELSE "r"),
                         right |-> bit(IF j.side = "Left" THEN "zl" ELSE "zr"),
                         scroll_x |-> scroll(data.x_raw, 780, 3260),
                         scroll_y |-> scroll(data.y_raw, 820, 3250)],
          !.battery_level = battery.battery_level,
          !.alert_sent = @ \/ battery.alert,
          !.is_connected = TRUE,
          !.notified = battery.alert]

\* A parse_input_report without the length check.
parse_input_report_NoCheck(j, data) == ParseFields(j, data)

\* parse_input_report: payloads shorter than 0x3C bytes are dropped.
parse_input_report(j, data) ==
  IF data.len < 60 THEN [j EXCEPT !.notified = FALSE] ELSE ParseFields(j, data)

\* A fresh snapshot of either side, as controller_loop creates one per session.
InitParse ==
  /\ config = CfgShared /\ pc = "parse" /\ vresult = "-" /\ ExecutorNew(CfgShared)
  /\ ManagerNew /\ ConnectionNew(<<>>)
  /\ \E side \in Sides : Joy2New(side) /\ SessionNew(side) /\ threads = <<>>

\* update(data) for payloads of four lengths, five battery readings (0 %, 9 %,
\* 10 %, 50 %, 100 %) and two settings of the other fields.
update ==
  /\ pc = "parse"
  /\ \E len \in {0, 59, 60, 63}, battery_raw \in {0, 389, 390, 2048, 4095},
        idle \in BOOLEAN :
       LET data == [len |-> len, battery_raw |-> battery_raw,
                    timestamp |-> IF idle THEN 1 ELSE 2,
                    btn_data |-> IF idle THEN 0 ELSE 16384 + 2048 + 64 + 2,
                    x_raw |-> IF idle THEN 2020 ELSE 3260,
                    y_raw |-> IF idle THEN 2035 ELSE 1000,
                    mouse |-> IF idle THEN <<0, 0, 0>> ELSE <<5, -3, 12>>,
                    motion_timestamp |-> IF idle THEN 1 ELSE -2,
                    accel |-> IF idle THEN <<0, 4096, 0>> ELSE <<100, -200, 300>>,
                    gyro |-> IF idle THEN <<0, 0, 0>> ELSE <<10, -20, 30>>]
       IN joy' = [parse_input_report(joy, data) EXCEPT
                    !.report = Some(data), !.sampled = @ \/ len >= 60]
  /\ UNCHANGED <<execVars, mgrVars, connection, session, threads>>

SpecParse == InitParse /\ [][update]_vars

\* ---------------------------------------------------------- event extraction

\* One notification in controller_loop: controller.update(&notification.value),
\* then process_left_button_events / process_right_button_events, the stick
\* test and the gyro test, each against the loop's prev_* locals.  The
\* payloads press a group of buttons or none, put the stick's x at -0.04,
\* 0.0, 0.04 or 0.08 and turn the gyroscope or not.
notification ==
  /\ pc = "parse"
  /\ \E len \in {59, 60}, pressed \in BOOLEAN, x_raw \in {1971, 2020, 2070, 2120},
        turning \in BOOLEAN :
       \E data \in {[len |-> len, battery_raw |-> 4095, timestamp |-> 1,
                      btn_data |-> IF pressed THEN 16384 + 2048 + 64 + 2 ELSE 0,
                      x_raw |-> x_raw, y_raw |-> 2035,
                      mouse |-> <<0, 0, 0>>, motion_timestamp |-> 1,
                      accel |-> <<0, 4096, 0>>,
                      gyro |-> IF turning THEN <<10, -20, 30>> ELSE <<0, 0, 0>>]} :
       \E j \in {parse_input_report(joy, data)} :
       LET fields == ButtonFields(j.side)
           change(i) == check_button_change(j.buttons[fields[i][1]],
                                            session.prev_buttons[i], fields[i][2])
           changed(i) == change(i) # <<>>
           hits == SelectSeq([i \in 1..Len(fields) |-> i], changed)
           button_events == [k \in 1..Len(hits) |-> change(hits[k])[1]]
           abs(v) == IF v < 0 THEN -v ELSE v
           stick_moved ==
             \/ abs(j.analog_stick.x - session.prev_stick.x) > 5
             \/ abs(j.analog_stick.y - session.prev_stick.y) > 5
           \* 0.5 degrees per second, the gyroscope being in units of 360/6048
           gyro_changed ==
             \E a \in {"x", "y", "z"} :
               abs(j.gyroscope[a] - session.prev_gyro[a]) * 720 > 6048
       IN /\ joy' = [j EXCEPT !.report = Some(data), !.sampled = @ \/ len >= 60]
          /\ session' =
               [prev_buttons |-> [i \in 1..Len(fields) |-> j.buttons[fields[i][1]]],
                prev_stick |-> IF stick_moved THEN j.analog_stick
                               ELSE session.prev_stick,
                prev_gyro |-> IF gyro_changed THEN j.gyroscope ELSE session.prev_gyro,
                out |-> button_events
                        \o (IF stick_moved
                              THEN <<StickMovedEv(j.side, j.analog_stick.x,
                                                  j.analog_stick.y)>>
                              ELSE <<>>)
                        \o (IF gyro_changed
                              THEN <<GyroUpdateEv(j.side, j.gyroscope.x,
                                                  j.gyroscope.y, j.gyroscope.z)>>
                              ELSE <<>>),
                last |-> [i \in 1..Len(fields) |->
                            IF changed(i) THEN change(i)[1].kind
                            ELSE session.last[i]]]
  /\ UNCHANGED <<execVars, mgrVars, connection, threads>>

SpecExtract == InitParse /\ [][notification]_vars

\* =================================================================== claims

\* Reference counts of key k in the held state (0 when it has no entry).
ButtonCount(k) ==
  IF k \in DOMAIN held_state.key_sources THEN held_state.key_sources[k].button ELSE 0

StickCount(k) ==
  IF k \in DOMAIN held_state.key_sources THEN held_state.key_sources[k].stick ELSE 0

\* Atomic key names the model's configurations and direct calls use.
KeyNames ==
  {<<"w">>, <<"a">>, <<"s">>, <<"d">>, <<"x">>, <<"y">>, <<"b">>, <<"l">>,
   <<"q">>, <<"shift">>, <<"ctrl">>}

\* C1: while every keyboard backend call has succeeded, after each
\* press_key / release_key call keys_down is exactly the set of key names
\* whose button count plus stick count is greater than zero.
C1_KeysDownIsClaimedKeys ==
  kbAllOk =>
    held_state.keys_down = {k \in KeyNames : ButtonCount(k) + StickCount(k) > 0}

\* C1 witness: a release_key call by the Button source left "w" down because
\* the Stick source still claims it.
C1_Witness ==
  /\ kbAllOk
  /\ lastEvent.kind = "release_key" /\ lastEvent.key = <<"w">>
  /\ lastEvent.source = "Button"
  /\ ButtonCount(<<"w">>) = 0 /\ StickCount(<<"w">>) = 1
  /\ <<"w">> \in held_state.keys_down

\* Both stored stick positions lie inside their side's deadzone.
SticksAtRest ==
  /\ InDeadzone(left_stick.x, left_stick.y, DeadzoneOf("Left"))
  /\ InDeadzone(right_stick.x, right_stick.y, DeadzoneOf("Right"))

\* The loop has finished an iteration: both apply_stick_movement calls of a
\* tick are done.
TickDone == pc = "recv" /\ lastEvent.kind = "Tick"

\* C2: once every pressed button has been released and both sticks are back
\* inside their deadzones, and a following tick has been processed, keys_down
\* is empty (every key_down has been matched by a key_up).
C2_AllReleasedThenNoKeyDown ==
  (TickDone /\ physDown = {} /\ SticksAtRest) => held_state.keys_down = {}

\* The four event sequences of two buttons pressed one after the other and
\* released in either order.
C3_Scenarios ==
  {<<ButtonPressedEv(p1), ButtonPressedEv(p2),
     ButtonReleasedEv(r1), ButtonReleasedEv(r2)>> :
     <<p1, p2, r1, r2>> \in
       {<<"A", "B", "A", "B">>, <<"A", "B", "B", "A">>,
        <<"B", "A", "A", "B">>, <<"B", "A", "B", "A">>}}

\* The keyboard calls the shared key "w" may have caused after n events of a
\* scenario: key_down at the first press, key_up at the last release.
C3_Expected(n) ==
  IF n = 0 THEN <<>>
  ELSE IF n < 4 THEN <<<<"key_down", <<"w">>>>>>
  ELSE <<<<"key_down", <<"w">>>>, <<"key_up", <<"w">>>>>>

\* C3: with A and B both bound to KeyHold "w", along A and B pressed and then
\* released in either order the keyboard sees exactly one key_down("w"), at
\* the first press, and exactly one key_up("w"), at the last release.
C3_SharedKeyOneDownOneUp ==
  (config = CfgShared
     /\ \E s \in C3_Scenarios : \E n \in 0..4 : evLog = SubSeq(s, 1, n))
    => kbLog = C3_Expected(Len(evLog))

\* C3 witness: B was released first and A last, and the one key_up has been
\* sent.
C3_Witness ==
  /\ config = CfgShared
  /\ evLog = <<ButtonPressedEv("A"), ButtonPressedEv("B"),
               ButtonReleasedEv("B"), ButtonReleasedEv("A")>>
  /\ kbLog = <<<<"key_down", <<"w">>>>, <<"key_up", <<"w">>>>>>

\* Number of key_up(k) calls in the call list cs of one step.
KeyUps(cs, k) ==
  Cardinality({i \in 1..Len(cs) : cs[i][1] = "key_up" /\ cs[i][2] = k})

\* The step just taken ran clear_all (a profile switch or a disconnect).
RanClearAll ==
  \/ lastEvent.kind = "Disconnected"
  \/ \E i \in 1..Len(executed) : executed[i][1] = CycleProfiles

\* C4: a key claimed by a button and by a stick direction at the same time
\* gets no key_up in a step after which one of the two still claims it, and
\* stays down; the step in which the last remaining claimant releases issues
\* exactly one key_up for it, whichever source that claimant is.
C4_SharedAcrossSources ==
  [][\A k \in KeyNames :
       (kbAllOk' /\ ~RanClearAll') =>
         /\ (ButtonCount(k) >= 1 /\ StickCount(k) = 1) =>
              /\ KeyUps(calls', k) = 0
              /\ k \in held_state'.keys_down
              /\ ButtonCount(k)' + StickCount(k)' >= 1
         /\ (ButtonCount(k) + StickCount(k) >= 1
               /\ ButtonCount(k)' + StickCount(k)' = 0) =>
              /\ KeyUps(calls', k) = 1
              /\ k \notin held_state'.keys_down]_vars

\* C4 witness: A (bound to "w") was released while the stick still pushes
\* up (bound to "w"): the release ran, no key_up was sent, "w" is still down.
C4_Witness ==
  /\ config = CfgShared /\ kbAllOk
  /\ lastEvent = ButtonReleasedEv("A")
  /\ executed = <<<<KeyHold(<<"w">>), FALSE>>>>
  /\ ButtonCount(<<"w">>) = 0 /\ StickCount(<<"w">>) = 1
  /\ calls = <<>>
  /\ <<"w">> \in held_state.keys_down

\* C5: for every validated configuration, when the executor has finished
\* processing a button press that executed CycleProfiles, keys_down is empty.
C5_EmptyAfterCycleProfiles ==
  (lastEvent.kind = "ButtonPressed"
     /\ \E i \in 1..Len(executed) : executed[i] = <<CycleProfiles, TRUE>>)
    => held_state.keys_down = {}

\* The profile index after button b is let go (when it is down) and pressed.
IndexAfterFreshPress(b) ==
  LET env == [ok |-> TRUE, ord |-> <<>>]
      m1 == IF b \in held_state.buttons
              THEN on_button_released(Machine, b, env) ELSE Machine
      m2 == on_button_pressed([m1 EXCEPT !.calls = <<>>, !.executed = <<>>],
                              b, env)
  IN m2.current_profile_index

\* C6: in a validated configuration with at least two profiles that binds
\* CycleProfiles to some button, in every reachable executor state there is a
\* button whose fresh press changes current_profile_index.
C6_CanAlwaysLeaveProfile ==
  (Len(config.profiles) >= 2 /\ CollectedButtons(config, "CycleProfiles") # {})
    => \E b \in ButtonType : IndexAfterFreshPress(b) # current_profile_index

\* The meta actions rule (v) of validate() is about.
SwitchingMetas == {"CycleProfiles", "ToggleGyroMouseL", "ToggleGyroMouseR"}

\* The errors validate_profile_switching_buttons returns.
SwitchingErrors ==
  {"missing CycleProfiles", "missing ToggleGyroMouseL", "missing ToggleGyroMouseR"}

\* For some meta action the set of buttons bound to it in profile.buttons
\* differs between two profiles of the configuration.
SwitchingSetsDiffer ==
  \E meta \in SwitchingMetas : \E i, j \in 1..Len(config.profiles) :
    ButtonsBoundTo(config.profiles[i], meta) # ButtonsBoundTo(config.profiles[j], meta)

\* C7: for a configuration with two or more profiles, validate() rejects it
\* whenever the set of buttons bound to CycleProfiles, ToggleGyroMouseL or
\* ToggleGyroMouseR differs between two profiles, and does not return the
\* error of this rule when the sets are identical in all profiles.
C7_SwitchingButtonsConsistent ==
  (pc = "validated" /\ Len(config.profiles) >= 2) =>
    /\ SwitchingSetsDiffer => vresult # "Ok"
    /\ ~SwitchingSetsDiffer => vresult \notin SwitchingErrors

\* C7 witness: only the second of two profiles binds SLR to CycleProfiles,
\* and validate() has rejected the configuration.
C7_Witness ==
  /\ pc = "validated" /\ Len(config.profiles) = 2
  /\ ButtonsBoundTo(config.profiles[1], "CycleProfiles") = {}
  /\ ButtonsBoundTo(config.profiles[2], "CycleProfiles") = {"SLR"}
  /\ vresult = "missing CycleProfiles"

\* Scenario S4: A is pressed, SLR (CycleProfiles) is pressed, A is pressed again.
C8_Events == <<ButtonPressedEv("A"), ButtonPressedEv("SLR"), ButtonPressedEv("A")>>

\* The keyboard calls of scenario S4: A types "x" in profile 0 and "y" in
\* profile 1.
C8_Calls ==
  <<<<"key_down", <<"x">>>>, <<"key_up", <<"x">>>>, <<"key_down", <<"y">>>>>>

\* C8: with SLR bound to CycleProfiles in both profiles and A bound to "x" in
\* profile 0 and to "y" in profile 1, the events ButtonPressed(A),
\* ButtonPressed(SLR), ButtonPressed(A) produce exactly key_down("x"),
\* key_up("x"), key_down("y"), one call per event in that order.
C8_S4CallSequence ==
  (config = CfgS4 /\ \E n \in 0..3 : evLog = SubSeq(C8_Events, 1, n))
    => kbLog = SubSeq(C8_Calls, 1, Len(evLog))

\* C8 witness: the three events of the scenario have been processed.
C8_Witness ==
  /\ config = CfgS4
  /\ evLog = C8_Events
  /\ kbLog = C8_Calls
  /\ current_profile_index = 1

\* The atomic key names of the four direction strings of a DirectionalKeys.
DirectionAtoms(d) ==
  UNION {{SplitKey(str)[i] : i \in 1..Len(SplitKey(str))} :
           str \in {d.up, d.down, d.left, d.right} \ {<<>>}}

\* The step just taken ran apply_stick_movement for `stick`, mapped by the
\* current profile, with the stored position inside that side's deadzone.
AppliedInDeadzone(stick) ==
  /\ lastEvent.kind \in {"Tick", "StickMoved"}
  /\ lastEvent.stick = stick
  /\ IsSome(current_profile(Machine))
  /\ IsSome(StickMappingOf(Unwrap(current_profile(Machine)), stick))
  /\ InDeadzone(StickPos(Machine, stick).x, StickPos(Machine, stick).y,
                DeadzoneOf(stick))

\* C9: after apply_stick_movement has run for a stick whose stored position
\* is inside that side's deadzone: in Directional mode none of that stick's
\* four direction keys is held by the Stick source; in Mouse mode no
\* move_relative has been issued.
C9_DeadzoneReleasesOrStaysStill ==
  \A stick \in StickType :
    AppliedInDeadzone(stick) =>
      LET mapping == Unwrap(StickMappingOf(Unwrap(current_profile(Machine)), stick))
      IN /\ (mapping.mode = "Directional" /\ IsSome(mapping.directions)) =>
              \A k \in DirectionAtoms(Unwrap(mapping.directions)) : StickCount(k) = 0
         /\ mapping.mode = "Mouse" =>
              \A i \in 1..Len(calls) : calls[i][1] # "move_relative"

\* C9 witness: the left stick came back to the centre while it held "w"
\* for the Stick source, and the deadzone branch released it.
C9_Witness ==
  /\ config = CfgShared
  /\ lastEvent = StickMovedEv("Left", 0, 0)
  /\ calls = <<<<"key_up", <<"w">>>>>>
  /\ StickCount(<<"w">>) = 0
  /\ <<"w">> \notin held_state.keys_down

\* The action list a press of button b has to run in the current state: the
\* override list of b's side when that side's gyro-mouse flag is on and the
\* current profile's override map of that side contains b, profile.buttons[b]
\* otherwise (nothing when b is not bound).
C10_ListFor(b) ==
  LET profile == config.profiles[current_profile_index + 1]
      right == button_to_side(b) = "Right"
      flag == IF right THEN gyro_mouse_state.right_enabled
                       ELSE gyro_mouse_state.left_enabled
      overrides == IF right THEN profile.gyro_mouse_overrides_right
                            ELSE profile.gyro_mouse_overrides_left
  IN IF flag /\ b \in DOMAIN overrides THEN overrides[b]
     ELSE IF b \in DOMAIN profile.buttons THEN profile.buttons[b]
     ELSE <<>>

\* Actions a press of an already pressed button runs again.
C10_Repeats(action) == action.type \notin MetaActionTypes \cup {"KeyHold"}

\* C10: a ButtonPressed executes, with pressed = true and in order, exactly
\* the override list when the gyro-mouse flag of the button's side is on and
\* the current profile's override map for that side contains the button, and
\* exactly profile.buttons of the button otherwise (for a button that is
\* already pressed: the actions of that same list that are neither KeyHold
\* nor meta actions).
C10_OverrideListSelected ==
  [][(pc = "recv" /\ lastEvent'.kind = "ButtonPressed") =>
       LET b == lastEvent'.button
           list == IF b \in held_state.buttons
                     THEN SelectSeq(C10_ListFor(b), C10_Repeats)
                     ELSE C10_ListFor(b)
       IN executed' = [i \in 1..Len(list) |-> <<list[i], TRUE>>]]_vars

\* C10 witness: with the right gyro-mouse flag on, a fresh press of B ran
\* the override (a left mouse click) and not the base binding KeyHold "b".
C10_Witness ==
  /\ config = CfgGyroR
  /\ gyro_mouse_state.right_enabled
  /\ lastEvent = ButtonPressedEv("B")
  /\ executed = <<<<MouseClick("Left"), TRUE>>>>
  /\ calls = <<<<"button_down", "Left">>>>
  /\ held_state.keys_down = {}

\* The calls of cs that are `op` calls on one of the keys of the list `keys`.
KeyCallsOn(cs, op, keys) ==
  LET atoms == {keys[i] : i \in 1..Len(keys)}
      Hit(call) == call[1] = op /\ call[2] \in atoms
  IN SelectSeq(cs, Hit)

\* key_down of every key of the list, in order.
DownsInOrder(keys) == [i \in 1..Len(keys) |-> <<"key_down", keys[i]>>]

\* key_up of every key of the list, in reverse order.
UpsInReverse(keys) ==
  [i \in 1..Len(keys) |-> <<"key_up", keys[Len(keys) + 1 - i]>>]

\* Direction `dir` of a directional stick is pressed at position pos.
DirectionActive(dir, pos, deadzone) ==
  /\ ~InDeadzone(pos.x, pos.y, deadzone)
  /\ CASE dir = "up" -> pos.y < -DirThreshold
       [] dir = "down" -> pos.y > DirThreshold
       [] dir = "left" -> pos.x < -DirThreshold
       [] dir = "right" -> pos.x > DirThreshold

DirectionNames == {"up", "down", "left", "right"}

\* The key string a DirectionalKeys binds to a direction.
DirectionKey(d, dir) ==
  CASE dir = "up" -> d.up [] dir = "down" -> d.down
    [] dir = "left" -> d.left [] dir = "right" -> d.right

\* The directions of `stick` in the current profile, when it is Directional
\* with keys; None otherwise.
DirectionsOf(stick) ==
  LET mapping == StickMappingOf(config.profiles[current_profile_index + 1], stick)
  IN IF IsSome(mapping) /\ Unwrap(mapping).mode = "Directional"
       THEN Unwrap(mapping).directions ELSE None

\* Another pressed direction of a stick binds one of the keys of the list.
OtherDirectionShares(stick, dir, keys) ==
  \E s2 \in StickType : \E d2 \in DirectionNames :
    /\ <<s2, d2>> # <<stick, dir>>
    /\ IsSome(DirectionsOf(s2))
    /\ DirectionActive(d2, StickPos(Machine, s2), DeadzoneOf(s2))
    /\ \E i \in 1..Len(keys) : \E j \in 1..Len(SplitKey(DirectionKey(Unwrap(DirectionsOf(s2)), d2))) :
         SplitKey(DirectionKey(Unwrap(DirectionsOf(s2)), d2))[j] = keys[i]

\* A fresh press of a button bound to one KeyHold whose atoms nobody claims
\* sends key_down for the atoms in order; its release, while the button is
\* the only claimant, sends key_up for them in reverse order.
C11_ButtonPart ==
  (pc = "recv" /\ kbAllOk'
     /\ lastEvent'.kind \in {"ButtonPressed", "ButtonReleased"}) =>
    LET b == lastEvent'.button
        list == C10_ListFor(b)
    IN (Len(list) = 1 /\ list[1].type = "KeyHold" /\ IsSome(list[1].key)) =>
         LET keys == SplitKey(Unwrap(list[1].key))
         IN /\ (lastEvent'.kind = "ButtonPressed" /\ b \notin held_state.buttons
                  /\ \A i \in 1..Len(keys) :
                       ButtonCount(keys[i]) + StickCount(keys[i]) = 0)
                 => KeyCallsOn(calls', "key_down", keys) = DownsInOrder(keys)
            /\ (lastEvent'.kind = "ButtonReleased" /\ b \in held_state.buttons
                  /\ \A i \in 1..Len(keys) :
                       ButtonCount(keys[i]) = 1 /\ StickCount(keys[i]) = 0)
                 => KeyCallsOn(calls', "key_up", keys) = UpsInReverse(keys)

\* A stick direction that becomes pressed while nobody claims its atoms sends
\* key_down for them in order; when the stick leaves the direction while no
\* button and no other pressed direction claims the atoms, key_up is sent
\* for them in reverse order.
C11_StickPart ==
  (kbAllOk' /\ lastEvent'.kind \in {"StickMoved", "Tick"}) =>
    \A stick \in StickType : \A dir \in DirectionNames :
      (lastEvent'.stick = stick /\ IsSome(DirectionsOf(stick))
         /\ DirectionKey(Unwrap(DirectionsOf(stick)), dir) # <<>>) =>
        LET keys == SplitKey(DirectionKey(Unwrap(DirectionsOf(stick)), dir))
            before == StickPos(Machine, stick)
            after == IF stick = "Left" THEN left_stick' ELSE right_stick'
            dz == DeadzoneOf(stick)
        IN /\ (DirectionActive(dir, after, dz)
                 /\ \A i \in 1..Len(keys) :
                      ButtonCount(keys[i]) + StickCount(keys[i]) = 0)
                => KeyCallsOn(calls', "key_down", keys) = DownsInOrder(keys)
           /\ (DirectionActive(dir, before, dz) /\ ~DirectionActive(dir, after, dz)
                 /\ ~OtherDirectionShares(stick, dir, keys)
                 /\ \A i \in 1..Len(keys) : ButtonCount(keys[i]) = 0)
                => KeyCallsOn(calls', "key_up", keys) = UpsInReverse(keys)

\* C11: for a key-combo binding k1+...+kn with no other claimant on its
\* atoms, a press issues key_down(k1), ..., key_down(kn) in that order and the
\* matching release issues key_up(kn), ..., key_up(k1) in reverse order, for
\* button bindings and for stick directions.
C11_ComboOrder == [][C11_ButtonPart /\ C11_StickPart]_vars

\* The directions in the order handle_directional_keys goes through them.
DirectionOrder == <<"up", "down", "left", "right">>

\* The atomic keys of the key string of direction number n.
AtomsOfDirection(d, n) ==
  LET keys == SplitKey(DirectionKey(d, DirectionOrder[n]))
  IN {keys[i] : i \in 1..Len(keys)}

\* C12: in Directional mode with the stick outside the deadzone,
\* apply_stick_movement treats up as pressed iff y < -0.5, down iff y > 0.5,
\* left iff x < -0.5, right iff x > 0.5: afterwards the Stick source holds
\* the keys of exactly the pressed directions and not the keys of the others
\* (a key that several directions bind follows the last of them, the
\* directions being handled in the order up, down, left, right), and the
\* Button counts and the keys no direction binds are left alone.
C12_DirectionThresholds ==
  [][\A stick \in StickType :
       (lastEvent'.kind \in {"StickMoved", "Tick"} /\ lastEvent'.stick = stick
          /\ IsSome(DirectionsOf(stick))
          /\ ~InDeadzone(StickPos(Machine, stick).x', StickPos(Machine, stick).y',
                         DeadzoneOf(stick))) =>
         LET d == Unwrap(DirectionsOf(stick))
             pos == StickPos(Machine, stick)'
         IN \A k \in KeyNames :
              LET binding == {n \in 1..4 : k \in AtomsOfDirection(d, n)}
              IN /\ ButtonCount(k)' = ButtonCount(k)
                 /\ binding = {} => StickCount(k)' = StickCount(k)
                 /\ binding # {} =>
                      LET last == CHOOSE n \in binding : \A n2 \in binding : n2 <= n
                          pressed ==
                            CASE DirectionOrder[last] = "up" -> pos.y < -DirThreshold
                              [] DirectionOrder[last] = "down" -> pos.y > DirThreshold
                              [] DirectionOrder[last] = "left" -> pos.x < -DirThreshold
                              [] DirectionOrder[last] = "right" -> pos.x > DirThreshold
                      IN StickCount(k)' = IF pressed THEN 1 ELSE 0]_vars

\* C12 witness: the left stick went from up to the diagonal (0.5, -0.5),
\* which is outside the deadzone and on the threshold of both axes: nothing
\* is pressed, and "w" was released.
C12_Witness ==
  /\ config = CfgShared
  /\ lastEvent = StickMovedEv("Left", 50, -50)
  /\ calls = <<<<"key_up", <<"w">>>>>>
  /\ \A k \in KeyNames : StickCount(k) = 0

\* ---- C13 ----

\* The channel events of scenario S1, in order.
C13_Events == <<StickMovedEv("Right", 50, -50), StickMovedEv("Right", 0, 0)>>

\* How many of the first i steps of the loop received a StickMoved event.
StickMovesUpTo(i) ==
  Cardinality({j \in 1..i : loopLog[j].event.kind = "StickMoved"})

\* The backend calls scenario S1 expects of the i-th step of the loop.
C13_Expected(i) ==
  LET e == loopLog[i].event
  IN IF \/ e = C13_Events[1]
        \/ e = TickEv("Right") /\ StickMovesUpTo(i) = 1
       THEN <<<<"move_relative", 5, -5>>>>
       ELSE <<>>

\* C13: with the right stick in Mouse mode (sensitivity 1.0, factor 1.0,
\* deadzone 0.15), while the received events are a prefix of
\* StickMoved{Right, 0.5, -0.5}, StickMoved{Right, 0.0, 0.0}, the loop issues
\* exactly one move_relative(5, -5) in the step that processes the first
\* event, exactly one in the tick of every iteration from then until the second
\* event is processed, and no backend call in any other step.
C13_MouseStickScenario ==
  (/\ config = CfgMouse
   /\ Len(evLog) <= Len(C13_Events)
   /\ evLog = SubSeq(C13_Events, 1, Len(evLog)))
  => \A i \in 1..Len(loopLog) : loopLog[i].calls = C13_Expected(i)

\* The whole scenario has run: the deflection, an iteration that timed out,
\* the return to the centre and its ticks.
C13_Witness ==
  /\ config = CfgMouse
  /\ evLog = C13_Events
  /\ pc = "recv"
  /\ \E i \in 1..Len(loopLog) :
       loopLog[i].event = TimeoutEv /\ StickMovesUpTo(i) = 1
  /\ Cardinality({i \in 1..Len(loopLog) :
                    loopLog[i].calls = <<<<"move_relative", 5, -5>>>>}) = 4

\* ---- C14 ----

\* C14: a producer never blocks on the event channel: a controller thread
\* that is about to send an event of its notification loop can always take its
\* next step, also when the event channel is full (the event is then dropped
\* and the thread is back in its loop).
C14_ProducerNeverBlocks ==
  \A s \in Sides :
    controller[s].pc = "emit" => ENABLED NotificationLoop(s)

\* ---- C15 ----

\* Controller thread s is waiting on the peripheral channel (at the head of
\* its loop or inside recv_timeout) or has exited.
WaitingOrExited(s) == controller[s].pc \in {"top", "recv", "exited"}

\* C15: every Connected{side} a controller thread has sent is followed by a
\* Disconnected{side} of the same thread before the thread waits on the
\* peripheral channel again or exits: a waiting or exited thread has no
\* Connected outstanding.
C15_ConnectedThenDisconnected ==
  \A s \in Sides : WaitingOrExited(s) => ~controller[s].open

\* ---- C16 ----

\* C16: whenever a controller thread is waiting on the peripheral channel,
\* the MAC-dedup set contains no MAC that this thread inserted: every session
\* end, a failed connect() or initialize() included, has removed its MAC.
C16_WaitingThreadHoldsNoMac ==
  \A s \in Sides :
    controller[s].pc \in {"top", "recv"}
      => controller[s].inserted \cap connected_macs = {}

\* ---- C17 ----

\* Controller thread s is in a session: it has registered its MAC and has
\* neither failed nor yet disconnected the peripheral and removed the MAC.
InSession(s) ==
  controller[s].pc \in {"connect", "initialize", "sendConnected", "notifications",
                        "loop", "emit", "disconnect", "remove"}

\* At most one session per MAC: two threads in a session have different MACs.
OneSessionPerMac ==
  \A s, t \in Sides :
    InSession(s) /\ InSession(t) /\ s # t => controller[s].mac # controller[t].mac

\* The step of thread s from its registration: with the MAC present the
\* thread is back at its loop, the set is unchanged and no session exists for
\* it; with the MAC absent the same step has inserted it.
RegistrationStep(s) ==
  controller[s].pc = "register" /\ controller'[s].pc # "register"
    => IF controller[s].mac \in connected_macs
         THEN /\ controller'[s].pc = "top"
              /\ connected_macs' = connected_macs
         ELSE /\ controller'[s].pc = "connect"
              /\ connected_macs' = connected_macs \cup {controller[s].mac}

AllExited ==
  /\ scanner.pc = "exited"
  /\ \A s \in Sides : controller[s].pc = "exited"
  /\ executor_thread = "exited"

\* C18: after shutdown has set running to false, each of the four threads
\* eventually leaves its loop and exits, whatever the fill level of the two
\* bounded channels.
C18_ShutdownTerminates == (~running) ~> AllExited

\* ---- C19 ----

\* Position of a connection state in Disconnected, Connecting, Initializing,
\* Ready.
StateRank(state) ==
  CASE state = "Disconnected" -> 0
    [] state = "Connecting" -> 1
    [] state = "Initializing" -> 2
    [] state = "Ready" -> 3

\* C19: for every sequence of connect(), initialize() and disconnect() calls,
\* failing calls included, a call leaves the state where it was or further
\* along Disconnected, Connecting, Initializing, Ready; the only call that
\* moves it back is disconnect(), which leaves it Disconnected.
C19_StateOnlyAdvances ==
  [][StateRank(connection'.state) < StateRank(connection.state)
       => connection'.call = "disconnect" /\ connection'.state = "Disconnected"]_vars

\* ---- C20 ----

\* The handshake of a connection that has its three handles, in the order
\* the specification gives it.
C20_Handshake ==
  <<"subscribe cmd_response">>
  \o (IF IsSome(connection.mac_address)
        THEN <<"write JOY2_SAVE_MAC_ADDR_STEP1", "write JOY2_SAVE_MAC_ADDR_STEP2",
               "write JOY2_SAVE_MAC_ADDR_STEP3", "write JOY2_SAVE_MAC_ADDR_STEP4">>
        ELSE <<>>)
  \o <<"write JOY2_CONNECTED_VIBRATION", "write JOY2_SET_PLAYER_LED",
       "write JOY2_INIT_SENSOR_DATA", "write JOY2_FINALIZE_SENSOR_DATA",
       "write JOY2_START_SENSOR_DATA", "subscribe tx">>

\* The last call was initialize() on a connection that connect() had given
\* its three characteristic handles.
InitializedWithHandles ==
  /\ connection.call = "initialize"
  /\ connection.tx_char /\ connection.cmd_char /\ connection.cmd_response_char

LastReport == Unwrap(joy.report)

\* The percent nearest to battery_raw * 100 / 4095.
RoundedPercent(battery_raw) ==
  CHOOSE p \in 0..100 :
    /\ 2 * (battery_raw * 100 - p * 4095) <= 4095
    /\ 2 * (p * 4095 - battery_raw * 100) <= 4095

\* C21: on every input report the stored battery percent changes only if the
\* report's rounded percent is strictly lower than the stored value or no
\* full report came before it in the session; once a full report has been
\* parsed the stored percent never increases.
C21_BatteryOnlyDecreases ==
  [][/\ joy'.battery_level # joy.battery_level =>
          \/ RoundedPercent(LastReport'.battery_raw) < joy.battery_level
          \/ ~joy.sampled
     /\ joy.sampled => joy'.battery_level <= joy.battery_level]_vars

\* A full report with a higher reading than the stored percent has been
\* parsed after the first one, and the stored percent stayed below it.
C21_Witness ==
  /\ pc = "parse" /\ IsSome(joy.report)
  /\ LastReport.len >= 60
  /\ joy.timestamp = LastReport.timestamp
  /\ joy.battery_level = 9
  /\ RoundedPercent(LastReport.battery_raw) = 50

\* ---- C22 ----

\* C22: the low-battery alert is raised on exactly the first report after
\* which the stored battery percent is below 10 (the stored percent was not
\* below 10 before the report and is below 10 after it), alert_sent is set
\* on that report, and no other report raises an alert.
C22_AlertOnFirstDrop ==
  [][/\ joy'.notified <=> (joy'.battery_level < 10 /\ joy.battery_level >= 10)
     /\ joy'.notified => joy'.alert_sent]_vars

\* ---- C23 ----

\* The controller snapshot: every field of Joy2L / Joy2R the model keeps.
Snapshot(j) == [f \in DOMAIN j \ {"report", "notified", "sampled"} |-> j[f]]

\* C23: update() with a payload shorter than 0x3C bytes leaves the whole
\* snapshot unchanged (buttons, stick, sensors, timestamps, battery,
\* alert_sent, is_connected) and raises nothing.
C23_ShortPayloadDropped ==
  [][LastReport'.len < 60 => Snapshot(joy') = Snapshot(joy) /\ ~joy'.notified]_vars

\* A 59-byte payload whose fields all differ from the snapshot, with a
\* reading below the stored percent, was given to a connected snapshot.
C23_Witness ==
  /\ pc = "parse" /\ IsSome(joy.report)
  /\ LastReport.len = 59
  /\ joy.is_connected /\ joy.timestamp = 1 /\ LastReport.timestamp = 2
  /\ joy.battery_level = 50 /\ LastReport.battery_raw = 0

\* ---- C24 ----

\* One of the global conditions fails for cfg: a stick deadzone is not a
\* number of [0, 1], a sensitivity factor is not a number greater than 0,
\* the profile list is empty, or default_profile names no profile.
InvalidGlobals(cfg) ==
  LET InRange(d) == d # NaN /\ 0 <= d /\ d <= FP
      Positive(f) == f # NaN /\ f > 0
  IN \/ ~InRange(cfg.settings.left_stick_deadzone)
     \/ ~InRange(cfg.settings.right_stick_deadzone)
     \/ \E i \in 1..Len(cfg.settings.sensitivity_factor) :
          ~Positive(cfg.settings.sensitivity_factor[i])
     \/ cfg.profiles = <<>>
     \/ ~\E i \in 1..Len(cfg.profiles) :
           cfg.profiles[i].name = cfg.settings.default_profile

\* C24: validate() returns an error whenever a stick deadzone lies outside
\* [0, 1], a sensitivity factor is not greater than 0, the profile list is
\* empty or default_profile names no existing profile; it returns Ok only if
\* none of these holds.
C24_ValidateRejectsGlobals ==
  pc = "validated" /\ InvalidGlobals(config) => vresult # "Ok"

\* ---- C25 ----

\* C25: when a connected controller's notification stream ends while running
\* is true, the controller thread eventually leaves its notification loop,
\* removes the MAC and emits Disconnected, and is back waiting on the
\* peripheral channel (unless stop() is called in the meantime).
C25_StreamEndLeavesLoop ==
  \A s \in Sides :
    (running /\ controller[s].pc = "loop" /\ controller[s].ended)
      ~> (~running \/ WaitingOrExited(s))

\* ---- C26 ----

\* The channel event e belongs to the controller of the given side.
EventOfSide(e, side) ==
  CASE e.kind \in {"ButtonPressed", "ButtonReleased"} -> button_to_side(e.button) = side
    [] e.kind \in {"StickMoved", "GyroUpdate", "Connected", "Disconnected"} ->
         e.stick = side
    [] OTHER -> FALSE

\* C26: once the executor has processed Disconnected{side}, and until another
\* event of that side arrives, the apply_stick_movement call of no loop
\* iteration issues key_down or move_relative for that side's stick.
C26_NoStickOutputAfterDisconnect ==
  \A i \in 1..Len(loopLog) : \A j \in (i + 1)..Len(loopLog) :
    LET d == loopLog[i].event
    IN (/\ d.kind = "Disconnected"
        /\ loopLog[j].event = TickEv(d.stick)
        /\ \A k \in (i + 1)..(j - 1) : ~EventOfSide(loopLog[k].event, d.stick))
       => \A c \in 1..Len(loopLog[j].calls) :
            loopLog[j].calls[c][1] \notin {"key_down", "move_relative"}

\* ---- C27 ----

\* C27: a controller thread whose connect() or initialize() fails calls
\* disconnect() before it waits on the peripheral channel again: from
\* connect() and initialize() the thread goes on with the setup or to the
\* disconnect() call, never straight back to its wait loop.
C27_FailedSetupDisconnects ==
  [][\A s \in Sides :
       (controller[s].pc \in {"connect", "initialize"}
          /\ controller'[s].pc # controller[s].pc)
       => controller'[s].pc \in {"initialize", "sendConnected", "disconnect"}]_vars

\* ---- C28 ----

\* C28: a peripheral tuple tagged with side S is never removed from the
\* peripheral channel by the controller thread of the other side: whenever
\* a thread's recv takes the head of the channel, the head carries that
\* thread's side.
C28_TupleTakenByOwnSide ==
  [][\A s \in Sides :
       (/\ controller[s].pc = "recv" /\ controller'[s].pc # "recv"
        /\ peripheral_channel # <<>>
        /\ peripheral_channel' = Tail(peripheral_channel))
       => Head(peripheral_channel).side = s]_vars

\* ---- C29 ----

\* C29: the scanner never puts on the peripheral channel a tuple whose MAC is
\* in the MAC-dedup set at the moment of the send.
C29_NoSendOfConnectedMac ==
  [][Len(peripheral_channel') > Len(peripheral_channel)
     => peripheral_channel'[Len(peripheral_channel')].mac \notin connected_macs]_vars

\* ---- C30 ----

\* C30: processing ButtonPressed(b) for a button b that is already in
\* held_state.buttons makes no keyboard or mouse backend call and changes no
\* executor state, whatever actions are bound to b.
C30_RepeatedPressHasNoEffect ==
  [][(/\ pc = "recv" /\ pc' = "tickLeft"
      /\ lastEvent'.kind = "ButtonPressed"
      /\ lastEvent'.button \in held_state.buttons)
     => /\ calls' = <<>>
        /\ UNCHANGED <<held_state, current_profile_index,
                       current_sensitivity_index, gyro_mouse_state,
                       left_stick, right_stick>>]_vars

\* ---- C31 ----

\* The execute_action calls (action, pressed = true) of loop step i that
\* carry a meta action.
MetaExecuted(i) ==
  {loopLog[i].executed[n][1] : n \in
     {n \in 1..Len(loopLog[i].executed) :
        /\ loopLog[i].executed[n][2]
        /\ loopLog[i].executed[n][1].type \in MetaActionTypes}}

\* C31: a meta action bound to button b executes once per press edge:
\* between a ButtonPressed(b) that executed it and the next
\* ButtonReleased(b), no further ButtonPressed(b) executes it again.
C31_MetaOncePerPressEdge ==
  \A i \in 1..Len(loopLog) : \A j \in (i + 1)..Len(loopLog) :
    LET e == loopLog[i].event
    IN (/\ e.kind = "ButtonPressed"
        /\ loopLog[j].event = e
        /\ \A k \in (i + 1)..(j - 1) : loopLog[k].event # ButtonReleasedEv(e.button))
       => MetaExecuted(i) \cap MetaExecuted(j) = {}

\* ---- C32 ----

\* C32: disconnect() always leaves the connection state Disconnected, also
\* when an unsubscribe or the closing of the GATT link fails.
C32_DisconnectAlwaysDisconnected ==
  connection.call = "disconnect" => connection.state = "Disconnected"

\* ---- C33 ----

\* C33: whenever the connection state is Ready the three characteristic
\* handles tx, cmd and cmd_response are present, for every sequence of
\* connect() and initialize() calls.
C33_ReadyHasAllHandles ==
  connection.state = "Ready" =>
    connection.tx_char /\ connection.cmd_char /\ connection.cmd_response_char

\* ---- C34 ----

\* The number of events e in the sequence of events sent for the last
\* notification.
Sent(e) == Cardinality({n \in 1..Len(session.out) : session.out[n] = e})

\* C34: within one session, for each button the events sent for a
\* notification are ButtonPressed(b), once, exactly when the button bit is 0
\* in the previous snapshot and 1 in the new one, and ButtonReleased(b),
\* once, exactly when it goes from 1 to 0; a ButtonPressed(b) is the first
\* event of b or follows a ButtonReleased(b), and a ButtonReleased(b) follows
\* a ButtonPressed(b).
C34_ButtonEdgesAlternate ==
  [][\A i \in 1..Len(ButtonFields(joy.side)) :
       LET field == ButtonFields(joy.side)[i][1]
           b == ButtonFields(joy.side)[i][2]
           before == joy.buttons[field]
           after == joy'.buttons[field]
       IN /\ Sent(ButtonPressedEv(b))' = IF ~before /\ after THEN 1 ELSE 0
          /\ Sent(ButtonReleasedEv(b))' = IF before /\ ~after THEN 1 ELSE 0
          /\ Sent(ButtonPressedEv(b))' = 1 => session.last[i] \in {"-", "ButtonReleased"}
          /\ Sent(ButtonReleasedEv(b))' = 1 => session.last[i] = "ButtonPressed"]_vars

\* The Right controller's A was pressed, released and pressed again, the
\* last notification carrying the second press together with R, Plus and
\* Chat.
C34_Witness ==
  /\ pc = "parse" /\ joy.side = "Right"
  /\ Sent(ButtonPressedEv("A")) = 1 /\ Sent(ButtonPressedEv("R")) = 1
  /\ Sent(ButtonPressedEv("Plus")) = 1 /\ Sent(ButtonPressedEv("Chat")) = 1
  /\ session.prev_stick.x = 8

\* ---- C35 ----

\* C35: for each notification StickMoved is sent, once and with the new
\* snapshot's values, if and only if the stick's x or y in the new snapshot
\* differs by more than 0.05 from its value in the previous snapshot.
C35_StickMovedOnSnapshotChange ==
  [][LET differs ==
           \/ joy'.analog_stick.x - joy.analog_stick.x > 5
           \/ joy.analog_stick.x - joy'.analog_stick.x > 5
           \/ joy'.analog_stick.y - joy.analog_stick.y > 5
           \/ joy.analog_stick.y - joy'.analog_stick.y > 5
         moves == {n \in 1..Len(session'.out) : session'.out[n].kind = "StickMoved"}
     IN /\ Cardinality(moves) = IF differs THEN 1 ELSE 0
        /\ \A n \in moves :
             session'.out[n] = StickMovedEv(joy.side, joy'.analog_stick.x,
                                            joy'.analog_stick.y)]_vars


\* C36: after every apply_stick_movement call (a StickMoved event or a tick),
\* the keyboard calls having succeeded, every atomic key of every direction
\* that is active on either stick (beyond the 0.5 threshold, outside the
\* deadzone) is in keys_down, also when two directions share an atom or both
\* sticks bind the same key.
C36_ActiveDirectionKeysDown ==
  [][(kbAllOk' /\ lastEvent'.kind \in {"StickMoved", "Tick"}) =>
       \A stick \in StickType : \A dir \in DirectionNames :
         (IsSome(DirectionsOf(stick))
            /\ DirectionActive(dir, StickPos(Machine, stick)', DeadzoneOf(stick))) =>
           LET keys == SplitKey(DirectionKey(Unwrap(DirectionsOf(stick)), dir))
           IN \A i \in 1..Len(keys) : keys[i] \in held_state.keys_down']_vars


\* The backend calls of the recorded loop iterations, in the order issued.
RECURSIVE CallsUpTo(_)
CallsUpTo(n) == IF n = 0 THEN <<>> ELSE CallsUpTo(n - 1) \o loopLog[n].calls

\* Number of calls op(btn) among the first n calls of a sequence.
CountCalls(seq, n, op, btn) ==
  Cardinality({i \in 1..n : seq[i] = <<op, btn>>})

\* C37: every mouse.button_down of a MouseClick binding is matched by a
\* button_up: whenever held_state.buttons is empty, each mouse button has
\* received as many button_up calls as button_down calls, and no button_up is
\* issued without an earlier unmatched button_down.
C37_MouseDownMatchedByUp ==
  \E all \in {CallsUpTo(Len(loopLog))} :
    \A btn \in {"Left", "Right", "Middle"} :
      /\ held_state.buttons = {} =>
           CountCalls(all, Len(all), "button_down", btn)
             = CountCalls(all, Len(all), "button_up", btn)
      /\ \A n \in 1..Len(all) :
           CountCalls(all, n, "button_up", btn) <= CountCalls(all, n, "button_down", btn)


\* The recorded keyboard calls for key k, in the order issued.
KeyLog(k) ==
  LET ForKey(c) == c[2] = k
  IN SelectSeq(kbLog, ForKey)

\* C38: with the keyboard backend's calls succeeding, the keyboard calls for
\* each key name strictly alternate key_down, key_up, key_down, ..., starting
\* with key_down, for every sequence of executor events, including across
\* clear_all.
C38_KeyCallsAlternate ==
  \A k \in {kbLog[i][2] : i \in 1..Len(kbLog)} :
    \E s \in {KeyLog(k)} :
      \A i \in 1..Len(s) : s[i][1] = IF i % 2 = 1 THEN "key_down" ELSE "key_up"

\* A key is pressed again after a disconnect released it through clear_all.
C38_Witness ==
  /\ Len(evLog) = 3
  /\ evLog[2].kind = "Disconnected"
  /\ kbLog = <<<<"key_down", <<"w">>>>, <<"key_up", <<"w">>>>,
               <<"key_down", <<"w">>>>>>


\* C39: when the executor thread has left its loop, it has issued key_up for
\* every key it had sent key_down for: keys_down is empty and every key's
\* recorded calls end with key_up.
C39_NoKeyDownAtThreadExit ==
  executor_thread = "exited" =>
    /\ held_state.keys_down = {}
    /\ \A k \in {kbLog[i][2] : i \in 1..Len(kbLog)} :
         KeyLog(k)[Len(KeyLog(k))][1] = "key_up"


\* The spawned threads of a name that have not returned.
Alive(name) == {i \in 1..Len(threads) : threads[i].name = name /\ threads[i].pc # "exited"}

\* C40: for any sequence of start() and stop() calls, at most one executor
\* thread, one scanner thread and one controller thread per side are running
\* at any time.
C40_OneThreadOfEachKind ==
  \A name \in {"executor", "scanner", "controller-left", "controller-right"} :
    Cardinality(Alive(name)) <= 1

====
